---------------------------- MODULE Spec2Model ----------------------------
(***************************************************************************)
(* A model of the TTS in-memory time-series server: the timeseries         *)
(* registry, the record store and the tag index, as driven by the request  *)
(* handlers of src/src/tts_handlers.c.                                     *)
(*                                                                         *)
(* A timeseries is the struct of src/src/tts.h: a name, a retention, the   *)
(* vector of timestamps, the vector of records ("columns") and the         *)
(* two-level tag map.  A record pointer is modelled by the back-index the  *)
(* handler stores in the record (record->index, the length of the          *)
(* timestamp vector right after the append). The uthash maps are functions *)
(* whose DOMAIN is the set of keys present.                                *)
(***************************************************************************)
EXTENDS Integers, Sequences, FiniteSets, TLC

(***************************************************************************)
(* Bounds of the model.                                                    *)
(***************************************************************************)
\* samples stored in the whole registry
MaxStored == 2
\* points carried by one ADDPOINTS packet
MaxPoints == 2
\* labels carried by one point
MaxLabels == 2
\* samples of the timeseries the queries are run on
MaxSeries == 4

(***************************************************************************)
(* Program constants.                                                      *)
(***************************************************************************)
TTS_VECTOR_BASE_SIZE == 4

TTS_REQUEST  == 0
TTS_RESPONSE == 1

TTS_CREATE_TS      == 0
TTS_DELETE_TS      == 1
TTS_ADDPOINTS      == 2
TTS_QUERY          == 3
TTS_QUERY_RESPONSE == 4
TTS_ACK            == 5

TTS_QUERY_ALL_TIMESERIES     == 0
TTS_QUERY_ALL_TIMESERIES_AVG == 1

TTS_OK          == 0
TTS_ENOTS       == 1
TTS_UNKNOWN_CMD == 2
TTS_EOOM        == 3

\* the number of values of unsigned char, the type of tts_record.labels_nr
UCHAR_RANGE == 256

\* the literal 1e9 of the timestamp computation
NSEC_PER_SEC == 1000000000
\* the literal 1e6 of the window computation
NSEC_PER_MSEC == 1000000

(***************************************************************************)
(* Inputs.                                                                 *)
(***************************************************************************)
Names == {"a", "ab"}
TagNames == {"a"}
Retentions == {0, 7}
Values == {1, 2}
\* readings of clock_gettime(CLOCK_REALTIME)
Clocks == {[tv_sec |-> 1, tv_nsec |-> 7]}
LabelPairs == {[label |-> "h", value |-> "x"], [label |-> "h", value |-> "y"]}

SeqsUpTo(S, n) == UNION {[1..k -> S] : k \in 0..n}

LabelLists == SeqsUpTo(LabelPairs, MaxLabels)

\* a decoded point of struct tts_addpoints; a timestamp component that is
\* not on the wire is 0 until the handler fills it
PointsOver(lists) ==
    {p \in [ts_sec_set : {0, 1}, ts_nsec_set : {0, 1}, value : Values,
            ts_sec : {0}, ts_nsec : {0, 5}, labels : lists] :
        p.ts_nsec = IF p.ts_nsec_set = 1 THEN 5 ELSE 0}

Points == PointsOver({<<>>})
\* the label list that is one label longer than an unsigned char counts
ManyLabels == [j \in 1..UCHAR_RANGE |-> [label |-> "h", value |-> "x"]]

\* points with no label or with more labels than an unsigned char counts
WidePoints ==
    {p \in PointsOver({<<>>, ManyLabels}) :
        p.ts_sec_set = 1 /\ p.ts_nsec_set = 1}

TagPoints ==
    {p \in PointsOver(LabelLists) :
        p.ts_sec_set = 1 /\ p.ts_nsec_set = 1 /\ p.value = 1}

\* the decoded struct tts_query with no flag set; a field that is not on
\* the wire is 0.  reserved is bit 5 of the flags byte; rest is what the
\* body holds behind the last field the decoder reads, as (label, value)
\* pairs
AllQuery ==
    [bits |-> [mean |-> 0, first |-> 0, last |-> 0, major_of |-> 0,
               minor_of |-> 0, reserved |-> 0],
     mean_val |-> 0, major_of |-> 0, minor_of |-> 0, rest |-> <<>>]

MeanOf(q, w) == [q EXCEPT !.bits.mean = 1, !.mean_val = w]

\* a query with bit 5 of the flags set and the pairs behind the fields
FilterOf(q, pairs) == [q EXCEPT !.bits.reserved = 1, !.rest = pairs]

QueryNames == {"a"}
\* timestamps of the points, bounds of the ranges (nanoseconds) and windows
\* (milliseconds) of the queried timeseries
QueryTimes == {1000000, 4000000, 6000000}
QueryBounds == {1000000, 2000000, 3000000, 5000000}
QueryWindows == {1, 2}
\* what a read of a slot that holds no timestamp may yield
Indeterminate == {0, 2000000000}

QueryPoints ==
    [ts_sec_set : {1}, ts_nsec_set : {1}, value : Values, ts_sec : {0},
     ts_nsec : QueryTimes, labels : {<<>>}]

\* the points of the timeseries queried by labels, and the lists of pairs
\* of those queries
FilterTimes == {1000000, 4000000}
FilterPoints ==
    [ts_sec_set : {1}, ts_nsec_set : {1}, value : {1}, ts_sec : {0},
     ts_nsec : FilterTimes, labels : LabelLists]
FilterLists == LabelLists \ {<<>>}

\* the queries with a lower bound, an upper bound or both
RangeQueries ==
    {[AllQuery EXCEPT !.bits.major_of = 1, !.major_of = lo] :
        lo \in QueryBounds}
    \cup {[AllQuery EXCEPT !.bits.minor_of = 1, !.minor_of = hi] :
            hi \in QueryBounds}
    \cup {[AllQuery EXCEPT !.bits.major_of = 1, !.major_of = lo,
                           !.bits.minor_of = 1, !.minor_of = hi] :
            lo \in QueryBounds, hi \in QueryBounds}

VARIABLES
    db,        \* tts_database.timeseries: name -> struct tts_timeseries
    req,       \* the packet decoded by on_data and handed to the dispatcher
    clock,     \* the reading of the clock taken by the handler
    response,  \* the header of the response the handler encoded
    fault,     \* "none" while the server process runs, else how it ended
    oob,       \* whether the last handler read a vector outside 0..size-1
    inserted,  \* history: per name, the points received since its creation
    lifecycle, \* history: how the last request changed the presence of a name
    conn,      \* the ev_tcp_handle of the client connection and its socket
    codec,     \* pack.c, tts_protocol.c: a value, its bytes and the cursor
    ctx        \* ev.h: the ev_context of the reactor and the fds it watches

vars ==
    <<db, req, clock, response, fault, oob, inserted, lifecycle, conn, codec,
      ctx>>

(***************************************************************************)
(* tts_vector.h                                                            *)
(***************************************************************************)
TTS_VECTOR_NEW ==
    [size |-> 0, capacity |-> TTS_VECTOR_BASE_SIZE, data |-> <<>>]

TTS_VECTOR_SIZE(vec) == vec.size

TTS_VECTOR_APPEND(vec, item) ==
    [size     |-> vec.size + 1,
     capacity |-> IF vec.size + 1 = vec.capacity
                  THEN vec.capacity * 2 ELSE vec.capacity,
     data     |-> Append(vec.data, item)]

\* index is the C index, 0-based
TTS_VECTOR_AT(vec, index) == vec.data[index + 1]

(***************************************************************************)
(* uthash: a map is a function from the keys present to the items.         *)
(***************************************************************************)
HASH_EMPTY == [k \in {} |-> k]

HASH_PRESENT(head, key) == key \in DOMAIN head

HASH_ADD(head, key, item) == (key :> item) @@ head

HASH_DEL_Keep(head, key) == head

\* a deletion that matches the key as a prefix of the stored names
NamePrefix(a, b) == a = b \/ (a = "a" /\ b = "ab")

HASH_DEL_ByPrefix(head, key) ==
    [k \in {n \in DOMAIN head : ~NamePrefix(key, n)} |-> head[k]]

HASH_DEL(head, key) == [k \in DOMAIN head \ {key} |-> head[k]]

(***************************************************************************)
(* tts.h                                                                   *)
(***************************************************************************)
TTS_TIMESERIES_INIT_NoRetention(ts_name, ret) ==
    [name       |-> ts_name,
     retention  |-> 0,
     timestamps |-> TTS_VECTOR_NEW,
     columns    |-> TTS_VECTOR_NEW,
     tags       |-> HASH_EMPTY]

TTS_TIMESERIES_INIT(ts_name, ret) ==
    [name       |-> ts_name,
     retention  |-> ret,
     timestamps |-> TTS_VECTOR_NEW,
     columns    |-> TTS_VECTOR_NEW,
     tags       |-> HASH_EMPTY]

(***************************************************************************)
(* tts_handlers.c: the insertion of the points of one ADDPOINTS packet     *)
(***************************************************************************)
\* timestamp = ts_sec * 1e9 + ts_nsec; the product and the sum are computed
\* in double precision, which is exact for the values of this model
\* (all below 2^53)
Timestamp(ts_sec, ts_nsec) == ts_sec * NSEC_PER_SEC + ts_nsec

\* the tag map after one label of the point is indexed for the record
\* pointer rp: one iteration of the loop over the labels
IndexLabel(tags, label, rp) ==
    LET l == label.label
        v == label.value
    IN  IF HASH_PRESENT(tags, l)
        THEN
            LET dummy == tags[l]
                sub == IF HASH_PRESENT(dummy.tag, v)
                       THEN dummy.tag[v]
                       ELSE [tag_name |-> v, column |-> TTS_VECTOR_NEW]
                sub2 == [sub EXCEPT
                           !.column = TTS_VECTOR_APPEND(sub.column, rp)]
            IN  HASH_ADD(tags, l,
                         [dummy EXCEPT !.tag = HASH_ADD(dummy.tag, v, sub2)])
        ELSE
            LET sub_tag == [tag_name |-> v,
                            column |-> TTS_VECTOR_APPEND(TTS_VECTOR_NEW, rp)]
                tag == [tag_name |-> l,
                        column   |-> TTS_VECTOR_NEW,
                        tag      |-> HASH_ADD(HASH_EMPTY, v, sub_tag)]
            IN  HASH_ADD(tags, l, tag)

\* the labels at the positions a..b indexed in their order, the first half
\* before the second
RECURSIVE IndexLabelsIn(_, _, _, _, _)
IndexLabelsIn(tags, labels, a, b, rp) ==
    IF a > b THEN tags
    ELSE IF a = b THEN IndexLabel(tags, labels[a], rp)
    ELSE LET mid == (a + b) \div 2
             half == IndexLabelsIn(tags, labels, a, mid, rp)
         IN  \* the test has the first half computed before the second starts
             IF DOMAIN half = {} THEN half
             ELSE IndexLabelsIn(half, labels, mid + 1, b, rp)

\* the tag map after the label at position j of the point, and those after
\* it, are indexed for the record pointer rp
IndexLabels(tags, labels, j, rp) == IndexLabelsIn(tags, labels, j, Len(labels), rp)

\* the record of a point, stored at back-index index
Record(point, index) ==
    [index     |-> index,
     value     |-> point.value,
     labels_nr |-> Len(point.labels) % UCHAR_RANGE,
     labels    |-> [j \in 1..Len(point.labels) |->
                      [field |-> point.labels[j].label,
                       value |-> point.labels[j].value]]]

InsertAt(seq, p, x) == SubSeq(seq, 1, p) \o <<x>> \o SubSeq(seq, p + 1, Len(seq))

\* a timestamp equal to the last stored one is not appended again
AddPoint_SharedTimestamp(ts, point, tv) ==
    LET sec == IF point.ts_sec_set = 0 THEN tv.tv_sec ELSE point.ts_sec
        nsec == IF point.ts_nsec_set = 0 THEN tv.tv_nsec ELSE point.ts_nsec
        t == Timestamp(sec, nsec)
        n == TTS_VECTOR_SIZE(ts.timestamps)
        timestamps == IF n > 0 /\ TTS_VECTOR_AT(ts.timestamps, n - 1) = t
                      THEN ts.timestamps
                      ELSE TTS_VECTOR_APPEND(ts.timestamps, t)
        record == Record(point, TTS_VECTOR_SIZE(timestamps))
    IN  [ts EXCEPT
           !.timestamps = timestamps,
           !.tags = IndexLabels(ts.tags, point.labels, 1, record.index),
           !.columns = TTS_VECTOR_APPEND(ts.columns, record)]

\* the sample is inserted where its timestamp keeps the vectors sorted
AddPoint_Sorted(ts, point, tv) ==
    LET sec == IF point.ts_sec_set = 0 THEN tv.tv_sec ELSE point.ts_sec
        nsec == IF point.ts_nsec_set = 0 THEN tv.tv_nsec ELSE point.ts_nsec
        t == Timestamp(sec, nsec)
        p == Cardinality({i \in 1..Len(ts.timestamps.data) :
                             ts.timestamps.data[i] <= t})
        record == Record(point, TTS_VECTOR_SIZE(ts.timestamps) + 1)
    IN  [ts EXCEPT
           !.timestamps = [TTS_VECTOR_APPEND(@, t) EXCEPT
                             !.data = InsertAt(ts.timestamps.data, p, t)],
           !.tags = IndexLabels(ts.tags, point.labels, 1, record.index),
           !.columns = [TTS_VECTOR_APPEND(@, record) EXCEPT
                          !.data = InsertAt(ts.columns.data, p, record)]]

\* one iteration of the loop over the points of the packet
AddPoint(ts, point, tv) ==
    LET sec == IF point.ts_sec_set = 0 THEN tv.tv_sec ELSE point.ts_sec
        nsec == IF point.ts_nsec_set = 0 THEN tv.tv_nsec ELSE point.ts_nsec
        timestamps == TTS_VECTOR_APPEND(ts.timestamps, Timestamp(sec, nsec))
        record == Record(point, TTS_VECTOR_SIZE(timestamps))
    IN  [ts EXCEPT
           !.timestamps = timestamps,
           !.tags = IndexLabels(ts.tags, point.labels, 1, record.index),
           !.columns = TTS_VECTOR_APPEND(ts.columns, record)]

RECURSIVE AddPoints(_, _, _, _)
AddPoints(ts, points, i, tv) ==
    IF i > Len(points) THEN ts
    ELSE AddPoints(AddPoint(ts, points[i], tv), points, i + 1, tv)

(***************************************************************************)
(* The state before the first request.                                     *)
(***************************************************************************)
NoPacket == [opcode |-> -1]
NoLifecycle == [stage |-> "none", name |-> "", tagged |-> FALSE]

\* no client is connected: the handlers are driven with decoded packets
NoConnection ==
    [state |-> "none", armed |-> "NONE", buf |-> <<>>, size |-> 0,
     capacity |-> 0, to_read |-> 0, wire |-> <<>>, inbox |-> <<>>, fin |-> FALSE,
     posted |-> <<>>, nread |-> 0, handled |-> 0, seen |-> <<>>,
     resp |-> <<>>, out |-> <<>>, uaf |-> FALSE, accepted |-> 0]

\* no byte packer is at work
NoCodec == [stage |-> "none"]

\* no reactor is followed
NoContext == [stage |-> "none"]

\* the server before its first request, no client connected
ServerInit ==
    /\ db = HASH_EMPTY
    /\ req = NoPacket
    /\ clock = [tv_sec |-> 0, tv_nsec |-> 0]
    /\ response = [type |-> TTS_REQUEST, opcode |-> 0, status |-> TTS_OK,
                   results |-> <<>>]
    /\ fault = "none"
    /\ oob = FALSE
    /\ inserted = [k \in {} |-> <<>>]
    /\ lifecycle = NoLifecycle
    /\ conn = NoConnection

Init ==
    /\ ServerInit
    /\ codec = NoCodec
    /\ ctx = NoContext

\* the response starts as struct tts_packet response = {0}: no result row
TTS_SET_RESPONSE_HEADER(o, s) ==
    [type |-> TTS_RESPONSE, opcode |-> o, status |-> s, results |-> <<>>]

Stored == LET RECURSIVE Sum(_)
              Sum(S) == IF S = {} THEN 0
                        ELSE LET n == CHOOSE n \in S : TRUE
                             IN  TTS_VECTOR_SIZE(db[n].timestamps) + Sum(S \ {n})
          IN  Sum(DOMAIN db)

(***************************************************************************)
(* The history variables, kept apart from the program's own lookups: what  *)
(* each name has received since it came into being, and how the last       *)
(* request changed the presence of its name.                               *)
(***************************************************************************)
HistoryPut(h, k, v) == [x \in DOMAIN h \cup {k} |-> IF x = k THEN v ELSE h[x]]

HistoryDrop(h, k) == [x \in DOMAIN h \ {k} |-> h[x]]

HistoryOf(k) == IF k \in DOMAIN inserted THEN inserted[k] ELSE <<>>

ObserveCreate(ts_name) ==
    /\ inserted' = HistoryPut(inserted, ts_name, HistoryOf(ts_name))
    /\ lifecycle' = IF lifecycle.stage = "deleted" /\ lifecycle.name = ts_name
                    THEN [lifecycle EXCEPT !.stage = "recreated"]
                    ELSE NoLifecycle

ObserveDelete(ts_name) ==
    /\ inserted' = HistoryDrop(inserted, ts_name)
    /\ lifecycle' =
          IF ts_name \in DOMAIN inserted
          THEN [stage |-> "deleted", name |-> ts_name,
                tagged |-> \E i \in 1..Len(inserted[ts_name]) :
                              inserted[ts_name][i].point.labels # <<>>]
          ELSE NoLifecycle

ObserveAddpoints(ts_name, points, tv) ==
    /\ inserted' = HistoryPut(inserted, ts_name,
                              HistoryOf(ts_name) \o
                                [i \in 1..Len(points) |->
                                    [point |-> points[i], tv |-> tv]])
    /\ lifecycle' = IF ts_name \in DOMAIN inserted THEN NoLifecycle
                    ELSE [stage |-> "autocreated", name |-> ts_name,
                          tagged |-> FALSE]

\* a deletion stays on record while the name it deleted is queried
ObserveQuery(ts_name) ==
    /\ inserted' = inserted
    /\ lifecycle' = IF lifecycle.stage = "deleted" /\ lifecycle.name = ts_name
                    THEN lifecycle ELSE NoLifecycle

(***************************************************************************)
(* tts_handlers.c: the request handlers                                    *)
(***************************************************************************)
handle_tts_create_Overwrite(ts_name, retention) ==
    /\ fault = "none"
    /\ req' = [opcode |-> TTS_CREATE_TS, ts_name |-> ts_name,
               retention |-> retention]
    /\ db' = HASH_ADD(db, ts_name, TTS_TIMESERIES_INIT(ts_name, retention))
    /\ response' = TTS_SET_RESPONSE_HEADER(
                       TTS_ACK,
                       IF HASH_PRESENT(db, ts_name) THEN TTS_ENOTS ELSE TTS_OK)
    /\ ObserveCreate(ts_name)
    /\ oob' = FALSE
    /\ UNCHANGED <<clock, fault>>

handle_tts_create_OkOnExisting(ts_name, retention) ==
    /\ fault = "none"
    /\ req' = [opcode |-> TTS_CREATE_TS, ts_name |-> ts_name,
               retention |-> retention]
    /\ IF HASH_PRESENT(db, ts_name)
       THEN db' = db
       ELSE db' = HASH_ADD(db, ts_name,
                           TTS_TIMESERIES_INIT(ts_name, retention))
    /\ response' = TTS_SET_RESPONSE_HEADER(TTS_ACK, TTS_OK)
    /\ ObserveCreate(ts_name)
    /\ oob' = FALSE
    /\ UNCHANGED <<clock, fault>>

handle_tts_create(ts_name, retention) ==
    /\ fault = "none"
    /\ req' = [opcode |-> TTS_CREATE_TS, ts_name |-> ts_name,
               retention |-> retention]
    /\ IF HASH_PRESENT(db, ts_name)
       THEN /\ db' = db
            /\ response' = TTS_SET_RESPONSE_HEADER(TTS_ACK, TTS_ENOTS)
       ELSE /\ db' = HASH_ADD(db, ts_name,
                              TTS_TIMESERIES_INIT(ts_name, retention))
            /\ response' = TTS_SET_RESPONSE_HEADER(TTS_ACK, TTS_OK)
    /\ ObserveCreate(ts_name)
    /\ oob' = FALSE
    /\ UNCHANGED <<clock, fault>>

handle_tts_delete_AlwaysOk(ts_name) ==
    /\ fault = "none"
    /\ req' = [opcode |-> TTS_DELETE_TS, ts_name |-> ts_name]
    /\ db' = HASH_DEL(db, ts_name)
    /\ response' = TTS_SET_RESPONSE_HEADER(TTS_ACK, TTS_OK)
    /\ ObserveDelete(ts_name)
    /\ oob' = FALSE
    /\ UNCHANGED <<clock, fault>>

handle_tts_delete_Truncate(ts_name) ==
    /\ fault = "none"
    /\ req' = [opcode |-> TTS_DELETE_TS, ts_name |-> ts_name]
    /\ IF ~HASH_PRESENT(db, ts_name)
       THEN /\ db' = db
            /\ response' = TTS_SET_RESPONSE_HEADER(TTS_ACK, TTS_ENOTS)
       ELSE /\ db' = [db EXCEPT ![ts_name].timestamps = TTS_VECTOR_NEW,
                                ![ts_name].columns = TTS_VECTOR_NEW]
            /\ response' = TTS_SET_RESPONSE_HEADER(TTS_ACK, TTS_OK)
    /\ ObserveDelete(ts_name)
    /\ oob' = FALSE
    /\ UNCHANGED <<clock, fault>>

handle_tts_delete(ts_name) ==
    /\ fault = "none"
    /\ req' = [opcode |-> TTS_DELETE_TS, ts_name |-> ts_name]
    /\ IF ~HASH_PRESENT(db, ts_name)
       THEN /\ db' = db
            /\ response' = TTS_SET_RESPONSE_HEADER(TTS_ACK, TTS_ENOTS)
       ELSE \* HASH_DEL, then TTS_TIMESERIES_DESTROY releases the struct, its
            \* vectors, its records and its tag nodes: nothing of it is left
            /\ db' = HASH_DEL(db, ts_name)
            /\ response' = TTS_SET_RESPONSE_HEADER(TTS_ACK, TTS_OK)
    /\ ObserveDelete(ts_name)
    /\ oob' = FALSE
    /\ UNCHANGED <<clock, fault>>

handle_tts_addpoints_NoAutoCreate(ts_name, points, tv) ==
    /\ fault = "none"
    /\ req' = [opcode |-> TTS_ADDPOINTS, ts_name |-> ts_name,
               points |-> points]
    /\ clock' = tv
    /\ IF HASH_PRESENT(db, ts_name)
       THEN /\ db' = HASH_ADD(db, ts_name,
                              AddPoints(db[ts_name], points, 1, tv))
            /\ response' = TTS_SET_RESPONSE_HEADER(TTS_ACK, TTS_OK)
       ELSE /\ db' = db
            /\ response' = TTS_SET_RESPONSE_HEADER(TTS_ACK, TTS_ENOTS)
    /\ ObserveAddpoints(ts_name, points, tv)
    /\ oob' = FALSE
    /\ UNCHANGED fault

handle_tts_addpoints(ts_name, points, tv) ==
    /\ fault = "none"
    /\ req' = [opcode |-> TTS_ADDPOINTS, ts_name |-> ts_name,
               points |-> points]
    /\ clock' = tv
    /\ LET ts == IF HASH_PRESENT(db, ts_name) THEN db[ts_name]
                 ELSE TTS_TIMESERIES_INIT(ts_name, 0)
       IN  db' = HASH_ADD(db, ts_name, AddPoints(ts, points, 1, tv))
    /\ response' = TTS_SET_RESPONSE_HEADER(TTS_ACK, TTS_OK)
    /\ ObserveAddpoints(ts_name, points, tv)
    /\ oob' = FALSE
    /\ UNCHANGED fault

\* the result row filled from the sample at (C) index t_idx
handle_tts_query_single(ts, t_idx) ==
    LET t == TTS_VECTOR_AT(ts.timestamps, t_idx)
        record == TTS_VECTOR_AT(ts.columns, t_idx)
    IN  [rc      |-> TTS_OK,
         ts_sec  |-> t \div NSEC_PER_SEC,
         ts_nsec |-> t % NSEC_PER_SEC,
         value   |-> record.value,
         labels  |-> [j \in 1..record.labels_nr |->
                        [label |-> record.labels[j].field,
                         value |-> record.labels[j].value]]]

handle_tts_query_all(ts) ==
    [i \in 1..TTS_VECTOR_SIZE(ts.timestamps) |->
        handle_tts_query_single(ts, i - 1)]

(***************************************************************************)
(* tts_handlers.c: the queries that select by index.  A size_t is held as  *)
(* the representative of its value modulo 2^64 that is nearest to 0: -1    *)
(* stands for SIZE_MAX, the result of 0 - 1.  A read of a vector outside   *)
(* 0..size-1 is undefined: the model gives it the content the allocation   *)
(* has there (0 in a slot of the first calloc that was never written) or a *)
(* value junk chosen by the environment, and a record read through such a  *)
(* slot ends the process.                                                  *)
(***************************************************************************)
\* a < b on size_t
ULT(a, b) == IF (a < 0) = (b < 0) THEN a < b ELSE b < 0

InBounds(vec, index) == index >= 0 /\ index < vec.size

\* vec.data[index] for the vector of timestamps, in or out of 0..size-1
Slot(vec, index, junk) ==
    IF InBounds(vec, index) THEN TTS_VECTOR_AT(vec, index)
    ELSE IF index >= 0 /\ index < TTS_VECTOR_BASE_SIZE THEN 0
    ELSE junk

\* Then(value), with value computed once before Then is entered: the local
\* variable of a loop, assigned once per pass and read many times
Bind(value, Then(_)) == CHOOSE out \in {Then(v) : v \in {value}} : TRUE

\* what a query handler leaves: the result rows, how the process ended if it
\* did, and whether a vector was read outside 0..size-1
Outcome(results, f, o) == [results |-> results, fault |-> f, oob |-> o]

\* the while loop of TTS_VECTOR_BINSEARCH
RECURSIVE BinarySearch(_, _, _, _)
BinarySearch(vec, target, left, right) ==
    IF ULT(right, left) THEN left
    ELSE
        LET middle == (left + right) \div 2
        IN  IF TTS_VECTOR_AT(vec, middle) < target
            THEN BinarySearch(vec, target, middle + 1, right)
            ELSE IF TTS_VECTOR_AT(vec, middle) > target
            THEN BinarySearch(vec, target, left, middle - 1)
            ELSE middle

\* on an empty vector data[0] and data[size - 1] are read all the same, and
\* the loop would run over the indexes up to SIZE_MAX
TTS_VECTOR_BINSEARCH(vec, target, junk) ==
    IF Slot(vec, 0, junk) >= target
    THEN [res |-> 0, fault |-> "none", oob |-> vec.size = 0]
    ELSE IF Slot(vec, vec.size - 1, junk) < target
    THEN [res |-> vec.size - 1, fault |-> "none", oob |-> vec.size = 0]
    ELSE IF vec.size = 0
    THEN [res |-> 0, fault |-> "segv", oob |-> TRUE]
    ELSE [res |-> BinarySearch(vec, target, 0, vec.size - 1),
          fault |-> "none", oob |-> FALSE]

\* how far the first loop of get_range_indexes lowers lo_idx, from index i
RECURSIVE LowerNeighbours(_, _, _)
LowerNeighbours(vec, i, major_of) ==
    IF i > 0 /\ TTS_VECTOR_AT(vec, i) >= major_of
    THEN 1 + LowerNeighbours(vec, i - 1, major_of)
    ELSE 0

\* how far the second loop of get_range_indexes raises hi_idx, from index i
RECURSIVE UpperNeighbours(_, _, _)
UpperNeighbours(vec, i, minor_of) ==
    IF i < TTS_VECTOR_SIZE(vec) /\ TTS_VECTOR_AT(vec, i) <= minor_of
    THEN 1 + UpperNeighbours(vec, i + 1, minor_of)
    ELSE 0

get_range_indexes(ts, minor_of, major_of, junk) ==
    LET l == TTS_VECTOR_BINSEARCH(ts.timestamps, major_of, junk)
        h == TTS_VECTOR_BINSEARCH(ts.timestamps, minor_of, junk)
        lo_idx == l.res
        hi_idx == h.res - 1
        neighbours == /\ ULT(0, lo_idx)
                      /\ ULT(hi_idx, TTS_VECTOR_SIZE(ts.timestamps))
    IN  [lo_idx |-> IF neighbours
                    THEN lo_idx - LowerNeighbours(ts.timestamps, lo_idx - 1,
                                                  major_of)
                    ELSE lo_idx,
         hi_idx |-> IF neighbours
                    THEN hi_idx + UpperNeighbours(ts.timestamps, hi_idx + 1,
                                                  minor_of)
                    ELSE hi_idx,
         fault  |-> IF l.fault # "none" THEN l.fault ELSE h.fault,
         oob    |-> l.oob \/ h.oob]

\* range is hi_idx - lo_idx + 1 on unsigned long long: a negative
\* representative is a count near 2^64, for which calloc returns NULL and the
\* first row is written through it
handle_tts_query_range(ts, minor_of, major_of, junk) ==
    Bind(get_range_indexes(ts, minor_of, major_of, junk),
         LAMBDA r :
            LET range == r.hi_idx - r.lo_idx + 1
            IN  IF r.fault # "none" THEN Outcome(<<>>, r.fault, TRUE)
                ELSE IF range = 0 THEN Outcome(<<>>, "none", r.oob)
                ELSE IF range < 0
                THEN Outcome(<<>>, "segv",
                             r.oob \/ ~InBounds(ts.timestamps, r.lo_idx))
                ELSE IF \A i \in 0..(range - 1) :
                            InBounds(ts.timestamps, i + r.lo_idx)
                THEN Outcome([i \in 1..range |->
                                 handle_tts_query_single(ts,
                                                         i - 1 + r.lo_idx)],
                             "none", r.oob)
                ELSE Outcome(<<>>, "segv", TRUE))

\* the row is filled without a look at the size of the vectors
handle_tts_query_one(ts, idx) ==
    IF InBounds(ts.timestamps, idx)
    THEN Outcome(<<handle_tts_query_single(ts, idx)>>, "none", FALSE)
    ELSE Outcome(<<>>, "segv", TRUE)

(***************************************************************************)
(* tts_handlers.c: the time-window averages.  A long double quotient is    *)
(* held as the fraction in lowest terms; 0 / 0, the NaN of the long double *)
(* division, is the fraction 0 / 0.                                        *)
(***************************************************************************)
RECURSIVE GCD(_, _)
GCD(a, b) == IF b = 0 THEN a ELSE GCD(b, a % b)

\* avg /= j
Quotient(avg, j) ==
    IF j = 0 THEN [num |-> 0, den |-> 0]
    ELSE [num |-> avg \div GCD(avg, j), den |-> j \div GCD(avg, j)]

\* window * 1e6, exact in double precision for the windows of this model
WindowNs(window) == window * NSEC_PER_MSEC

\* the row of one window
MeanRow(t, avg, j) ==
    [rc      |-> TTS_OK,
     ts_sec  |-> t \div NSEC_PER_SEC,
     ts_nsec |-> t % NSEC_PER_SEC,
     value   |-> Quotient(avg, j),
     labels  |-> <<>>]

\* for (; TTS_VECTOR_AT(ts->timestamps, i) <= step; ++i), the loop of both
\* averages: it has no bound on i, so after the last sample it reads the
\* slot behind it, and the record of that slot if the slot passes the test
RECURSIVE WindowScan(_, _, _, _, _, _, _)
WindowScan(ts, i, step, junk, avg, j, t) ==
    IF Slot(ts.timestamps, i, junk) <= step
    THEN IF InBounds(ts.columns, i)
         THEN WindowScan(ts, i + 1, step, junk,
                         avg + TTS_VECTOR_AT(ts.columns, i).value, j + 1,
                         TTS_VECTOR_AT(ts.timestamps, i))
         ELSE [i |-> i, avg |-> avg, j |-> j, t |-> t,
               fault |-> "segv", oob |-> TRUE]
    ELSE [i |-> i, avg |-> avg, j |-> j, t |-> t,
          fault |-> "none", oob |-> ~InBounds(ts.timestamps, i)]

\* the while (i < hi) loop of handle_tts_query_mean, from index i with the
\* rows filled so far
RECURSIVE MeanWindows(_, _, _, _, _, _, _)
MeanWindows(ts, i, hi, window, junk, rows, o) ==
    IF ~ULT(i, hi) THEN Outcome(rows, "none", o)
    ELSE
        Bind(WindowScan(ts, i, Slot(ts.timestamps, i, junk) + WindowNs(window),
                        junk, 0, 0, 0),
             LAMBDA w :
                IF w.fault # "none" THEN Outcome(<<>>, w.fault, TRUE)
                ELSE MeanWindows(ts, w.i, hi, window, junk,
                                 Append(rows, MeanRow(w.t, w.avg, w.j)),
                                 o \/ w.oob))

handle_tts_query_mean(ts, lo, hi, window, junk) ==
    MeanWindows(ts, lo, hi, window, junk, <<>>, FALSE)

\* a first loop that goes on while start is below the first timestamp, the
\* test of line 381 left out: start ends at or above that timestamp
RECURSIVE WindowStart_PastFirst(_, _, _)
WindowStart_PastFirst(first, start, window) ==
    IF first > start
    THEN IF window = 0 THEN [start |-> start, fault |-> "hang"]
         ELSE WindowStart_PastFirst(first, start + window, window)
    ELSE [start |-> start, fault |-> "none"]

\* the first loop of handle_tts_query_mean_r: start after it, or "hang" when
\* the loop never ends (a window of 0 below the first timestamp)
RECURSIVE WindowStart(_, _, _)
WindowStart(first, start, window) ==
    IF first > start /\ ~(start + window > first)
    THEN IF window = 0 THEN [start |-> start, fault |-> "hang"]
         ELSE WindowStart(first, start + window, window)
    ELSE [start |-> start, fault |-> "none"]

\* the while (i < hi) loop of handle_tts_query_mean_r.  With i behind the
\* last sample the loop goes on raising step until the slot there passes the
\* test and its record is read; with a window of 0 and no sample at or below
\* step it fills rows without end.
RECURSIVE MeanRangeWindows(_, _, _, _, _, _, _, _)
MeanRangeWindows(ts, i, hi, step, window, junk, rows, o) ==
    IF ~ULT(i, hi) THEN Outcome(rows, "none", o)
    ELSE IF ~InBounds(ts.timestamps, i) THEN Outcome(<<>>, "segv", TRUE)
    ELSE
        Bind(WindowScan(ts, i, step + window, junk, 0, 0, 0),
             LAMBDA w :
                IF w.fault # "none" THEN Outcome(<<>>, w.fault, TRUE)
                ELSE IF window = 0 /\ w.j = 0 THEN Outcome(<<>>, "hang", o)
                ELSE MeanRangeWindows(
                         ts, w.i, hi, step + window, window, junk,
                         Append(rows, MeanRow(step + window, w.avg, w.j)),
                         o \/ w.oob))

handle_tts_query_mean_r(ts, lo, hi, start, window, junk) ==
    LET s == WindowStart(Slot(ts.timestamps, lo, junk), start,
                         WindowNs(window))
        o == ~InBounds(ts.timestamps, lo)
    IN  IF s.fault # "none" THEN Outcome(<<>>, s.fault, o)
        ELSE MeanRangeWindows(ts, lo, hi, s.start, WindowNs(window), junk,
                              <<>>, o)

(***************************************************************************)
(* tts_handlers.c: handle_tts_query                                        *)
(***************************************************************************)
\* packet->query.byte, the bit fields of the query with mean in bit 0
QueryByte(bits) ==
    bits.mean + 2 * bits.first + 4 * bits.last + 8 * bits.major_of
    + 16 * bits.minor_of + 32 * bits.reserved

\* the branches of handle_tts_query for a timeseries that was found
QueryOutcome(ts, q, junk) ==
    IF QueryByte(q.bits) = TTS_QUERY_ALL_TIMESERIES
       \/ QueryByte(q.bits) = TTS_QUERY_ALL_TIMESERIES_AVG
    THEN IF q.bits.mean = 0
         THEN Outcome(handle_tts_query_all(ts), "none", FALSE)
         ELSE handle_tts_query_mean(ts, 0, TTS_VECTOR_SIZE(ts.timestamps),
                                    q.mean_val, junk)
    ELSE
        LET ts_size == TTS_VECTOR_SIZE(ts.timestamps) - 1
            empty == TTS_VECTOR_SIZE(ts.timestamps) = 0
            major_of == IF q.bits.major_of = 1 THEN q.major_of
                        ELSE Slot(ts.timestamps, 0, junk)
            minor_of == IF q.bits.minor_of = 1 THEN q.minor_of
                        ELSE Slot(ts.timestamps, ts_size, junk)
            out ==
                IF q.bits.first = 1 THEN handle_tts_query_one(ts, 0)
                ELSE IF q.bits.last = 1
                THEN handle_tts_query_one(
                         ts, TTS_VECTOR_SIZE(ts.timestamps) - 1)
                ELSE IF q.bits.mean = 0
                THEN handle_tts_query_range(ts, minor_of, major_of, junk)
                ELSE
                    Bind(get_range_indexes(ts, minor_of, major_of, junk),
                         LAMBDA r :
                            IF r.fault # "none"
                            THEN Outcome(<<>>, r.fault, TRUE)
                            ELSE [handle_tts_query_mean_r(
                                      ts, r.lo_idx, r.hi_idx, major_of,
                                      q.mean_val, junk)
                                  EXCEPT !.oob = @ \/ r.oob])
        IN  [out EXCEPT !.oob = @ \/ empty]

\* an absent name is answered like a timeseries without samples
handle_tts_query_EmptyOnAbsent(ts_name, q, junk) ==
    /\ fault = "none"
    /\ req' = [opcode |-> TTS_QUERY, ts_name |-> ts_name, bits |-> q.bits,
               mean_val |-> q.mean_val, major_of |-> q.major_of,
               minor_of |-> q.minor_of, rest |-> q.rest]
    /\ IF ~HASH_PRESENT(db, ts_name)
       THEN /\ response' = TTS_SET_RESPONSE_HEADER(TTS_QUERY_RESPONSE, TTS_OK)
            /\ fault' = "none"
            /\ oob' = FALSE
       ELSE \E out \in {QueryOutcome(db[ts_name], q, junk)} :
                /\ response' =
                      IF out.fault = "none"
                      THEN [TTS_SET_RESPONSE_HEADER(TTS_QUERY_RESPONSE,
                                                    TTS_OK) EXCEPT
                              !.results = out.results]
                      ELSE response
                /\ fault' = out.fault
                /\ oob' = out.oob
    /\ ObserveQuery(ts_name)
    /\ UNCHANGED <<db, clock>>

\* the request q is the decoded struct tts_query; junk is what a read of an
\* uninitialised or foreign slot yields in this run
handle_tts_query(ts_name, q, junk) ==
    /\ fault = "none"
    /\ req' = [opcode |-> TTS_QUERY, ts_name |-> ts_name, bits |-> q.bits,
               mean_val |-> q.mean_val, major_of |-> q.major_of,
               minor_of |-> q.minor_of, rest |-> q.rest]
    /\ IF ~HASH_PRESENT(db, ts_name)
       THEN /\ response' = TTS_SET_RESPONSE_HEADER(TTS_ACK, TTS_ENOTS)
            /\ fault' = "none"
            /\ oob' = FALSE
       ELSE \E out \in {QueryOutcome(db[ts_name], q, junk)} :
                /\ response' =
                      IF out.fault = "none"
                      THEN [TTS_SET_RESPONSE_HEADER(TTS_QUERY_RESPONSE,
                                                    TTS_OK) EXCEPT
                              !.results = out.results]
                      ELSE response
                /\ fault' = out.fault
                /\ oob' = out.oob
    /\ ObserveQuery(ts_name)
    /\ UNCHANGED <<db, clock>>

(***************************************************************************)
(* The requests a connection delivers, one action per opcode.              *)
(***************************************************************************)
CreateTs ==
    /\ UNCHANGED <<conn, codec, ctx>>
    /\ \E n \in Names, r \in Retentions : handle_tts_create(n, r)

DeleteTs ==
    /\ UNCHANGED <<conn, codec, ctx>>
    /\ \E n \in Names : handle_tts_delete(n)

AddPointsTo(names, pts) ==
    /\ UNCHANGED <<conn, codec, ctx>>
    /\ \E n \in names, k \in 0..MaxPoints :
           /\ Stored + k <= MaxStored
           /\ \E points \in [1..k -> pts], tv \in Clocks :
                 handle_tts_addpoints(n, points, tv)

Addpoints == AddPointsTo(Names, Points)

Query ==
    /\ UNCHANGED <<conn, codec, ctx>>
    /\ \E n \in Names : handle_tts_query(n, AllQuery, 0)

Next == CreateTs \/ DeleteTs \/ Addpoints \/ Query

Spec == Init /\ [][Next]_vars

(***************************************************************************)
(* The same handlers driven with labelled points on one timeseries.        *)
(***************************************************************************)
CreateTagged ==
    /\ UNCHANGED <<conn, codec, ctx>>
    /\ \E n \in TagNames, r \in Retentions : handle_tts_create(n, r)

DeleteTagged ==
    /\ UNCHANGED <<conn, codec, ctx>>
    /\ \E n \in TagNames : handle_tts_delete(n)

AddpointsTagged == AddPointsTo(TagNames, TagPoints)

QueryTagged ==
    /\ UNCHANGED <<conn, codec, ctx>>
    /\ \E n \in TagNames : handle_tts_query(n, AllQuery, 0)

NextTags == CreateTagged \/ DeleteTagged \/ AddpointsTagged \/ QueryTagged

TagSpec == Init /\ [][NextTags]_vars

(***************************************************************************)
(* The same handlers driven with points whose label lists are longer than  *)
(* the record's label counter can hold.                                    *)
(***************************************************************************)
CreateWide ==
    /\ UNCHANGED <<conn, codec, ctx>>
    /\ \E n \in QueryNames, r \in Retentions : handle_tts_create(n, r)

DeleteWide ==
    /\ UNCHANGED <<conn, codec, ctx>>
    /\ \E n \in QueryNames : handle_tts_delete(n)

AddpointsWide == AddPointsTo(QueryNames, WidePoints)

QueryWide ==
    /\ UNCHANGED <<conn, codec, ctx>>
    /\ \E n \in QueryNames : handle_tts_query(n, AllQuery, 0)

NextWide == CreateWide \/ DeleteWide \/ AddpointsWide \/ QueryWide

WideSpec == Init /\ [][NextWide]_vars

(***************************************************************************)
(* The query handlers driven on one timeseries whose points arrive in the  *)
(* order of their timestamps, one point a packet, with every shape of      *)
(* query.                                                                  *)
(***************************************************************************)
\* a query leaves the registry as it is, so a query that follows a query
\* reaches nothing that the first does not reach from the state before it:
\* the queries are taken after a request of another kind
AfterUpdate == req.opcode # TTS_QUERY

CreateQueried ==
    /\ UNCHANGED <<conn, codec, ctx>>
    /\ \E n \in QueryNames : handle_tts_create(n, 0)

DeleteQueried ==
    /\ UNCHANGED <<conn, codec, ctx>>
    /\ \E n \in QueryNames : handle_tts_delete(n)

AddpointQueried ==
    /\ UNCHANGED <<conn, codec, ctx>>
    /\ \E n \in QueryNames, p \in QueryPoints, tv \in Clocks :
           /\ HASH_PRESENT(db, n) =>
                 /\ TTS_VECTOR_SIZE(db[n].timestamps) < MaxSeries
                 /\ \A i \in 1..Len(db[n].timestamps.data) :
                       db[n].timestamps.data[i] <= p.ts_nsec
           /\ handle_tts_addpoints(n, <<p>>, tv)

QueryAll ==
    /\ UNCHANGED <<conn, codec, ctx>>
    /\ AfterUpdate
    /\ \E n \in QueryNames, junk \in Indeterminate :
          handle_tts_query(n, AllQuery, junk)

QueryMean ==
    /\ UNCHANGED <<conn, codec, ctx>>
    /\ AfterUpdate
    /\ \E n \in QueryNames, w \in QueryWindows, junk \in Indeterminate :
          handle_tts_query(n, MeanOf(AllQuery, w), junk)

QueryFirst ==
    /\ UNCHANGED <<conn, codec, ctx>>
    /\ AfterUpdate
    /\ \E n \in QueryNames, junk \in Indeterminate :
          handle_tts_query(n, [AllQuery EXCEPT !.bits.first = 1], junk)

QueryLast ==
    /\ UNCHANGED <<conn, codec, ctx>>
    /\ AfterUpdate
    /\ \E n \in QueryNames, junk \in Indeterminate :
          handle_tts_query(n, [AllQuery EXCEPT !.bits.last = 1], junk)

QueryRange ==
    /\ UNCHANGED <<conn, codec, ctx>>
    /\ AfterUpdate
    /\ \E n \in QueryNames, q \in RangeQueries, junk \in Indeterminate :
          handle_tts_query(n, q, junk)

QueryMeanRange ==
    /\ UNCHANGED <<conn, codec, ctx>>
    /\ AfterUpdate
    /\ \E n \in QueryNames, q \in RangeQueries, w \in QueryWindows,
          junk \in Indeterminate :
          handle_tts_query(n, MeanOf(q, w), junk)

NextQuery ==
    \/ CreateQueried \/ DeleteQueried \/ AddpointQueried
    \/ QueryAll \/ QueryMean \/ QueryFirst \/ QueryLast
    \/ QueryRange \/ QueryMeanRange

QuerySpec == Init /\ [][NextQuery]_vars

(***************************************************************************)
(* The same timeseries queried for averages whose window, the mean_val of  *)
(* the request, is any value of the field, 0 among them.                   *)
(***************************************************************************)
\* mean_val as unpack_tts_query reads it: an unsigned 64 bit field
MeanWindowValues == {0, 1}

QueryMeanWindowed ==
    /\ UNCHANGED <<conn, codec, ctx>>
    /\ AfterUpdate
    /\ \E n \in QueryNames, w \in MeanWindowValues, junk \in Indeterminate :
          handle_tts_query(n, MeanOf(AllQuery, w), junk)

QueryMeanRangeWindowed ==
    /\ UNCHANGED <<conn, codec, ctx>>
    /\ AfterUpdate
    /\ \E n \in QueryNames, q \in RangeQueries, w \in MeanWindowValues,
          junk \in Indeterminate :
          handle_tts_query(n, MeanOf(q, w), junk)

NextWindow ==
    \/ CreateQueried \/ DeleteQueried \/ AddpointQueried
    \/ QueryMeanWindowed \/ QueryMeanRangeWindowed

WindowSpec == Init /\ [][NextWindow]_vars

(***************************************************************************)
(* The handlers driven on one timeseries of labelled points that arrive in *)
(* the order of their timestamps, with queries that set bit 5 of the flags *)
(* and append (label, value) pairs to the body.                            *)
(***************************************************************************)
CreateFiltered ==
    /\ UNCHANGED <<conn, codec, ctx>>
    /\ \E n \in QueryNames : handle_tts_create(n, 0)

DeleteFiltered ==
    /\ UNCHANGED <<conn, codec, ctx>>
    /\ \E n \in QueryNames : handle_tts_delete(n)

AddpointFiltered ==
    /\ UNCHANGED <<conn, codec, ctx>>
    /\ \E n \in QueryNames, p \in FilterPoints, tv \in Clocks :
           /\ HASH_PRESENT(db, n) =>
                 /\ TTS_VECTOR_SIZE(db[n].timestamps) < MaxStored
                 /\ \A i \in 1..Len(db[n].timestamps.data) :
                       db[n].timestamps.data[i] <= p.ts_nsec
           /\ handle_tts_addpoints(n, <<p>>, tv)

QueryFiltered ==
    /\ UNCHANGED <<conn, codec, ctx>>
    /\ \E n \in QueryNames, pairs \in FilterLists, junk \in Indeterminate :
           handle_tts_query(n, FilterOf(AllQuery, pairs), junk)

NextFilter ==
    CreateFiltered \/ DeleteFiltered \/ AddpointFiltered \/ QueryFiltered

FilterSpec == Init /\ [][NextFilter]_vars

(***************************************************************************)
(* The same handlers driven with labelled points on two timeseries, the    *)
(* name of one being a prefix of the name of the other.                    *)
(***************************************************************************)
CreateFramed ==
    /\ UNCHANGED <<conn, codec, ctx>>
    /\ \E n \in Names : handle_tts_create(n, 0)

DeleteFramed ==
    /\ UNCHANGED <<conn, codec, ctx>>
    /\ \E n \in Names : handle_tts_delete(n)

AddpointsFramed == AddPointsTo(Names, TagPoints)

QueryFramed ==
    /\ UNCHANGED <<conn, codec, ctx>>
    /\ \E n \in Names : handle_tts_query(n, AllQuery, 0)

NextFrame == CreateFramed \/ DeleteFramed \/ AddpointsFramed \/ QueryFramed

FrameSpec == Init /\ [][NextFrame]_vars

(***************************************************************************)
(* ev_tcp.h, tts_server.c, tts_protocol.c: one client connection, from the *)
(* bytes its peer sends to the bytes the server hands to the socket.       *)
(* The packets are sequences of bytes; the buffer of the handle is kept as *)
(* the bytes written into it so far, every byte behind them being the 0 of *)
(* calloc.                                                                 *)
(***************************************************************************)
\* connections accepted one after the other
MaxConnections == 2
\* requests the peer sends on one connection
MaxRequests == 2
\* write(2) calls that take bytes during one run of ev_tcp_write
MaxWrites == 3

EV_TCP_SUCCESS == 0
EV_TCP_BUFSIZE == 2048

\* sizeof(uint8_t) for the header byte, sizeof(uint32_t) for the length
HEADER_SIZE == 1
LENGTH_SIZE == 4

\* an opcode the dispatcher has no case for
UnsupportedOpcode == 9

Min2(a, b) == IF a < b THEN a ELSE b
Max2(a, b) == IF a < b THEN b ELSE a

\* union tts_header: the bit-fields from the least significant bit on
HeaderByte(type, opcode, status) == type + 2 * opcode + 32 * status
HeaderType(byte) == byte % 2
HeaderOpcode(byte) == (byte \div 2) % 16
HeaderStatus(byte) == (byte \div 32) % 4

\* the byte at offset i of a calloc'ed buffer whose first bytes are m
MemAt(m, i) == IF i < Len(m) THEN m[i + 1] ELSE 0

MemGet(m, at, n) == [i \in 1..n |-> MemAt(m, at + i - 1)]

MemPut(m, at, bytes) ==
    [i \in 1..Max2(Len(m), at + Len(bytes)) |->
        IF i > at /\ i <= at + Len(bytes) THEN bytes[i - at]
        ELSE IF i <= Len(m) THEN m[i] ELSE 0]

\* pack_integer / unpack_integer, type 'I' and 'H': big-endian
PackU32(v) ==
    <<(v \div 16777216) % 256, (v \div 65536) % 256, (v \div 256) % 256,
      v % 256>>

UnpackU32(m, at) ==
    MemAt(m, at) * 16777216 + MemAt(m, at + 1) * 65536
        + MemAt(m, at + 2) * 256 + MemAt(m, at + 3)

UnpackU16(m, at) == MemAt(m, at) * 256 + MemAt(m, at + 1)

\* the names of the registry as bytes; unpack_bytes ends the copy with a
\* '\0' and the handlers read it as a C string, up to its first '\0'
NameBytes(name) ==
    IF name = "a" THEN <<97>> ELSE IF name = "ab" THEN <<97, 98>> ELSE <<>>

CString(bytes) ==
    LET zeros == {i \in 1..Len(bytes) : bytes[i] = 0}
    IN  IF zeros = {} THEN bytes
        ELSE SubSeq(bytes, 1, (CHOOSE i \in zeros : \A j \in zeros : i <= j) - 1)

NameOf(bytes) ==
    LET s == CString(bytes)
    IN  IF s = <<>> THEN "" ELSE IF s = <<97>> THEN "a"
        ELSE IF s = <<97, 98>> THEN "ab" ELSE "?"

\* a request as its peer encodes it: header byte, length of the body, then
\* the length of the name and the name
NamedRequest(opcode, name_len, name) ==
    <<HeaderByte(TTS_REQUEST, opcode, TTS_OK)>>
        \o PackU32(1 + Len(NameBytes(name)))
        \o <<name_len>> \o NameBytes(name)

BareRequest(opcode) ==
    <<HeaderByte(TTS_REQUEST, opcode, TTS_OK)>> \o PackU32(0)

\* the length prefix of a name that exceeds the length of the body
LongPrefix == 5

NetPackets ==
    {NamedRequest(TTS_CREATE_TS, 1, "a"), NamedRequest(TTS_DELETE_TS, 1, "a"),
     NamedRequest(TTS_CREATE_TS, LongPrefix, "a"),
     NamedRequest(TTS_DELETE_TS, LongPrefix, "a"),
     BareRequest(UnsupportedOpcode)}


(***************************************************************************)
(* pack.c: the byte packer.  An int64_t or uint64_t is held as its 64      *)
(* bits, four limbs of 16 bits with the highest first, so that the         *)
(* conversions between the widths are computed on the bits as the code     *)
(* computes them.                                                          *)
(***************************************************************************)
Limb == 65536

\* ~x on the 64 bits; for an int64_t it is -1 - x
Not64(w) == [k \in 1..4 |-> Limb - 1 - w[k]]

\* the int64_t that holds the int n, sign extended
Int64(n) ==
    IF n >= 0 THEN <<0, 0, n \div Limb, n % Limb>>
    ELSE Not64(<<0, 0, (-(n + 1)) \div Limb, (-(n + 1)) % Limb>>)

\* the eight bytes of the 64 bits, the most significant first
Bytes64(w) ==
    <<w[1] \div 256, w[1] % 256, w[2] \div 256, w[2] % 256,
      w[3] \div 256, w[3] % 256, w[4] \div 256, w[4] % 256>>

\* packi16, packi32, packi64: the value is cut to the width of the
\* parameter and stored from its highest byte
packi16(val) == SubSeq(Bytes64(val), 7, 8)
packi32(val) == SubSeq(Bytes64(val), 5, 8)
packi64(val) == Bytes64(val)

unpacku16(m, at) == <<0, 0, 0, UnpackU16(m, at)>>

unpacki16(m, at) ==
    LET i2 == UnpackU16(m, at)
    IN  IF i2 <= 32767 THEN Int64(i2) ELSE Int64(-1 - (65535 - i2))

unpacku32(m, at) == <<0, 0, UnpackU16(m, at), UnpackU16(m, at + 2)>>

unpacki32(m, at) ==
    LET i2 == unpacku32(m, at)
    IN  IF i2[3] <= 32767 THEN i2
        ELSE Int64(-1 - ((65535 - i2[3]) * Limb + (65535 - i2[4])))

unpacku64(m, at) == [k \in 1..4 |-> UnpackU16(m, at + 2 * (k - 1))]

unpacki64(m, at) ==
    LET i2 == unpacku64(m, at)
    IN  IF i2[1] <= 32767 THEN i2 ELSE Not64(Not64(i2))

\* the number of bytes of a type character, 0 for one without a case
IntegerWidth(type) ==
    IF type \in {"b", "B"} THEN 1
    ELSE IF type \in {"h", "H"} THEN 2
    ELSE IF type \in {"i", "I"} THEN 4
    ELSE IF type \in {"q", "Q"} THEN 8
    ELSE 0

\* pack_integer(&buf, type, val) with *buf at offset at of the memory m:
\* the memory, the cursor and the count returned
pack_integer(m, at, type, val) ==
    LET bytes == IF type \in {"b", "B"} THEN <<val[4] % 256>>
                 ELSE IF type \in {"h", "H"} THEN packi16(val)
                 ELSE IF type \in {"i", "I"} THEN packi32(val)
                 ELSE IF type \in {"q", "Q"} THEN packi64(val)
                 ELSE <<>>
    IN  [buf |-> MemPut(m, at, bytes), at |-> at + Len(bytes),
         len |-> Len(bytes)]

\* unpack_integer(&buf, type, &val): *val = **buf reads a uint8_t for 'b'
\* as for 'B'
unpack_integer(m, at, type) ==
    [val |-> IF type \in {"b", "B"} THEN Int64(MemAt(m, at))
             ELSE IF type = "h" THEN unpacki16(m, at)
             ELSE IF type = "H" THEN unpacku16(m, at)
             ELSE IF type = "i" THEN unpacki32(m, at)
             ELSE IF type = "I" THEN unpacku32(m, at)
             ELSE IF type = "q" THEN unpacki64(m, at)
             ELSE unpacku64(m, at),
     at |-> at + IntegerWidth(type),
     len |-> IntegerWidth(type)]

\* unpack_bytes(&buf, len, dst): the bytes copied, a '\0' behind them
unpack_bytes(m, at, len) ==
    [dst |-> MemGet(m, at, len) \o <<0>>, at |-> at + len, len |-> len]

\* a long double of the model: a fraction in lowest terms whose denominator
\* is a power of 2
Real(n, d) == [num |-> n \div GCD(IF n < 0 THEN -n ELSE n, d),
               den |-> d \div GCD(IF n < 0 THEN -n ELSE n, d)]

\* the two loops of pack754: fnorm = num / den is brought into [1, 2)
RECURSIVE Normalised(_, _, _)
Normalised(num, den, shift) ==
    IF num >= 2 * den THEN Normalised(num, den * 2, shift + 1)
    ELSE IF num < den THEN Normalised(num * 2, den, shift - 1)
    ELSE [num |-> num, den |-> den, shift |-> shift]

\* pack754(f, bits, expbits): the IEEE 754 image of f in a uint64_t.  The
\* significand is fnorm - 1 times (1LL << significandbits) + 0.5f, a float
\* sum that is 128.5 for 7 bits and the power of 2 itself for 23 and 52
\* bits, cut to a long long.
pack754(f, bits, expbits) ==
    IF f.num = 0 THEN <<0, 0, 0, 0>>
    ELSE
        LET sign == IF f.num < 0 THEN 1 ELSE 0
            n == Normalised(IF f.num < 0 THEN -f.num ELSE f.num, f.den, 0)
            r == n.num - n.den
            exp == n.shift + (2 ^ (expbits - 1) - 1)
        IN  IF bits = 16
            THEN <<0, 0, 0,
                   sign * 32768 + exp * 128 + (r * 257) \div (2 * n.den)>>
            ELSE IF bits = 32
            THEN LET sig == (r * 8388608) \div n.den
                 IN  <<0, 0, sign * 32768 + exp * 128 + sig \div Limb,
                       sig % Limb>>
            ELSE LET r1 == (r * 16) % n.den
                     r2 == (r1 * Limb) % n.den
                     r3 == (r2 * Limb) % n.den
                 IN  <<sign * 32768 + exp * 16 + (r * 16) \div n.den,
                       (r1 * Limb) \div n.den, (r2 * Limb) \div n.den,
                       (r3 * Limb) \div n.den>>

\* the two loops of unpack754: result times 2^shift
RECURSIVE Scaled(_, _, _)
Scaled(num, den, shift) ==
    IF shift > 0 THEN Scaled(num * 2, den, shift - 1)
    ELSE IF shift < 0 THEN Scaled(num, den * 2, shift + 1)
    ELSE Real(num, den)

\* unpack754(i, bits, expbits), for the images whose 32 lowest bits are
\* clear when bits is 64: those of the values of this model
unpack754(i, bits, expbits) ==
    IF i = <<0, 0, 0, 0>> THEN Real(0, 1)
    ELSE
        LET top == IF bits = 16 THEN i[4] ELSE IF bits = 32 THEN i[3] ELSE i[1]
            sign == IF top \div 32768 = 1 THEN -1 ELSE 1
            bias == 2 ^ (expbits - 1) - 1
        IN  IF bits = 16
            THEN Scaled(sign * (128 + (top % 128)), 128,
                        ((top \div 128) % 256) - bias)
            ELSE IF bits = 32
            THEN Scaled(sign * (8388608 + ((top % 128) * Limb) + i[4]), 8388608,
                        ((top \div 128) % 256) - bias)
            ELSE Scaled(sign * ((16 + (top % 16)) * Limb + i[2]), 16 * Limb,
                        ((top \div 16) % 2048) - bias)

RealWidth(type) ==
    IF type = "f" THEN 2 ELSE IF type = "d" THEN 4
    ELSE IF type = "g" THEN 8 ELSE 0

\* pack_real(&buf, type, val): the bytes are stored at *buf; buf += size
\* moves the parameter, the cursor *buf stays where it was
pack_real(m, at, type, val) ==
    LET bytes == IF type = "f" THEN packi16(pack754(val, 16, 8))
                 ELSE IF type = "d" THEN packi32(pack754(val, 32, 8))
                 ELSE IF type = "g" THEN packi64(pack754(val, 64, 11))
                 ELSE <<>>
    IN  [buf |-> MemPut(m, at, bytes), at |-> at, len |-> Len(bytes)]

\* unpack_real(&buf, type, &val): as pack_real, buf += size
unpack_real(m, at, type) ==
    [val |-> IF type = "f" THEN unpack754(unpacku16(m, at), 16, 8)
             ELSE IF type = "d" THEN unpack754(unpacku32(m, at), 32, 8)
             ELSE unpack754(unpacku64(m, at), 64, 11),
     at |-> at,
     len |-> RealWidth(type)]

(***************************************************************************)
(* The byte packer driven on one value: the value is packed at the cursor  *)
(* of a zeroed buffer and unpacked by a reader whose cursor starts where   *)
(* the writer started.                                                     *)
(***************************************************************************)
IntegerTypes == {"b", "B", "h", "H", "i", "I", "q", "Q"}

\* values that the type represents, the ends of its range among them
Representable(type) ==
    IF type = "b" THEN {Int64(-128), Int64(-1), Int64(0), Int64(5), Int64(127)}
    ELSE IF type = "B" THEN {Int64(0), Int64(5), Int64(128), Int64(255)}
    ELSE IF type = "h"
    THEN {Int64(-32768), Int64(-1), Int64(0), Int64(258), Int64(32767)}
    ELSE IF type = "H" THEN {Int64(0), Int64(258), Int64(65535)}
    ELSE IF type = "i"
    THEN {Int64(-2147483647 - 1), Int64(-1), Int64(0), Int64(16909060),
          Int64(2147483647)}
    ELSE IF type = "I"
    THEN {Int64(0), Int64(16909060), <<0, 0, 65535, 65535>>}
    ELSE IF type = "q"
    THEN {<<32768, 0, 0, 0>>, Int64(-1), Int64(0), <<258, 772, 1286, 1800>>,
          <<32767, 65535, 65535, 65535>>}
    ELSE {Int64(0), <<258, 772, 1286, 1800>>, <<65535, 65535, 65535, 65535>>}

RealTypes == {"f", "d", "g"}

RealValues ==
    {Real(0, 1), Real(1, 1), Real(-1, 1), Real(3, 2), Real(5, 4),
     Real(-5, 2), Real(1, 4), Real(10, 1)}

\* the byte runs of unpack_bytes
ByteRuns == {<<>>, <<97>>, <<97, 98>>, <<97, 0, 98>>}

\* where the cursor stands in the buffer before the operation
CursorStarts == {0, 3}

PackInput(kind, type, val, from, buf) ==
    [stage |-> "input", kind |-> kind, type |-> type, val |-> val,
     from |-> from, buf |-> buf, at |-> from, ret |-> 0, out |-> <<>>]

InitPack ==
    /\ ServerInit
    /\ ctx = NoContext
    /\ \E from \in CursorStarts :
          \/ \E type \in IntegerTypes : \E val \in Representable(type) :
                codec = PackInput("integer", type, val, from, <<>>)
          \/ \E type \in RealTypes, val \in RealValues :
                codec = PackInput("real", type, val, from, <<>>)
          \/ \E run \in ByteRuns :
                codec = PackInput("bytes", "s", Len(run), from,
                                  MemPut(<<>>, from, run))

PackInteger ==
    /\ codec.stage = "input"
    /\ codec.kind = "integer"
    /\ \E r \in {pack_integer(codec.buf, codec.at, codec.type, codec.val)} :
          codec' = [codec EXCEPT !.stage = "packed", !.buf = r.buf,
                                 !.at = r.at, !.ret = r.len]
    /\ UNCHANGED <<db, req, clock, response, fault, oob, inserted, lifecycle,
                   conn, ctx>>

\* the reader's cursor starts where the writer's started
UnpackInteger ==
    /\ codec.stage = "packed"
    /\ codec.kind = "integer"
    /\ \E r \in {unpack_integer(codec.buf, codec.from, codec.type)} :
          codec' = [codec EXCEPT !.stage = "unpacked", !.out = r.val,
                                 !.at = r.at, !.ret = r.len]
    /\ UNCHANGED <<db, req, clock, response, fault, oob, inserted, lifecycle,
                   conn, ctx>>

PackReal ==
    /\ codec.stage = "input"
    /\ codec.kind = "real"
    /\ \E r \in {pack_real(codec.buf, codec.at, codec.type, codec.val)} :
          codec' = [codec EXCEPT !.stage = "packed", !.buf = r.buf,
                                 !.at = r.at, !.ret = r.len]
    /\ UNCHANGED <<db, req, clock, response, fault, oob, inserted, lifecycle,
                   conn, ctx>>

UnpackReal ==
    /\ codec.stage = "packed"
    /\ codec.kind = "real"
    /\ \E r \in {unpack_real(codec.buf, codec.from, codec.type)} :
          codec' = [codec EXCEPT !.stage = "unpacked", !.out = r.val,
                                 !.at = r.at, !.ret = r.len]
    /\ UNCHANGED <<db, req, clock, response, fault, oob, inserted, lifecycle,
                   conn, ctx>>

UnpackBytes ==
    /\ codec.stage = "input"
    /\ codec.kind = "bytes"
    /\ \E r \in {unpack_bytes(codec.buf, codec.from, codec.val)} :
          codec' = [codec EXCEPT !.stage = "unpacked", !.out = r.dst,
                                 !.at = r.at, !.ret = r.len]
    /\ UNCHANGED <<db, req, clock, response, fault, oob, inserted, lifecycle,
                   conn, ctx>>

NextPack ==
    PackInteger \/ UnpackInteger \/ PackReal \/ UnpackReal \/ UnpackBytes

PackSpec == InitPack /\ [][NextPack]_vars

(***************************************************************************)
(* tts_protocol.c: the decoder and the encoder                             *)
(***************************************************************************)
\* the loop of unpack_tts_create over the fields behind the name: len is a
\* size_t, so a length that the fields overshoot wraps and the loop reads on
\* behind the buffer: TRUE when the loop comes to its end inside the buffer
RECURSIVE FieldsEnd(_, _, _)
FieldsEnd(m, at, len) ==
    IF len = 0 THEN TRUE
    ELSE IF len < 0 THEN FALSE
    ELSE FieldsEnd(m, at + 2 + UnpackU16(m, at), len - (2 + UnpackU16(m, at)))

unpack_tts_create(m, at, len) ==
    LET name_len == MemAt(m, at)
    IN  [ts_name |-> NameOf(MemGet(m, at + 1, name_len)),
         crash |-> ~FieldsEnd(m, at + 1 + name_len, len - (1 + name_len))]

unpack_tts_delete(m, at, len) ==
    LET name_len == MemAt(m, at)
    IN  [ts_name |-> NameOf(MemGet(m, at + 1, name_len)), crash |-> FALSE]

\* the header byte, the length, then the body by the kind of packet
unpack_tts_packet(m) ==
    LET byte == MemAt(m, 0)
        len == UnpackU32(m, HEADER_SIZE)
        at == HEADER_SIZE + LENGTH_SIZE
        body == IF HeaderOpcode(byte) = TTS_CREATE_TS
                THEN unpack_tts_create(m, at, len)
                ELSE IF HeaderOpcode(byte) = TTS_DELETE_TS
                THEN unpack_tts_delete(m, at, len)
                ELSE [ts_name |-> "", crash |-> FALSE]
    IN  [opcode |-> HeaderOpcode(byte), len |-> len,
         ts_name |-> body.ts_name, crash |-> body.crash]

\* pack_tts_packet: the header byte is written; the switch packs a body for
\* the four requests only, and the count returned adds sizeof(uint32_t) for
\* a length that no statement writes
pack_tts_packet(h, m) ==
    [buf |-> MemPut(m, 0, <<HeaderByte(h.type, h.opcode, h.status)>>),
     size |-> HEADER_SIZE + LENGTH_SIZE]

(***************************************************************************)
(* tts_handlers.c: the dispatcher                                          *)
(***************************************************************************)
\* the packets of a connection carry CREATE_TS, DELETE_TS or an opcode
\* without a case; rc stays 0 for the latter and nothing is encoded
Dispatched(opcode) == opcode \in {TTS_CREATE_TS, TTS_DELETE_TS}

tts_handle_packet(p) ==
    IF p.opcode = TTS_CREATE_TS THEN handle_tts_create(p.ts_name, 0)
    ELSE IF p.opcode = TTS_DELETE_TS THEN handle_tts_delete(p.ts_name)
    ELSE /\ fault = "none"
         /\ p.opcode \notin {TTS_ADDPOINTS, TTS_QUERY}
         /\ req' = [opcode |-> p.opcode]
         /\ UNCHANGED <<db, clock, response, fault, oob, inserted, lifecycle>>

(***************************************************************************)
(* tts_server.c: on_data                                                   *)
(***************************************************************************)
\* c is the handle as ev_tcp_read left it. The history fields: seen, the
\* bytes of the buffer the decoder was given; resp, the bytes queued for
\* the socket; out, the bytes handed to the socket since.
on_data(c) ==
    LET p == unpack_tts_packet(c.buf)
        met == [c EXCEPT !.handled = @ + 1,
                         !.seen = MemGet(c.buf, 0, c.size)]
    IN  IF p.crash
        THEN /\ fault' = "segv"
             /\ conn' = met
             /\ UNCHANGED <<db, req, clock, response, oob, inserted,
                            lifecycle>>
        ELSE /\ tts_handle_packet(p)
             /\ \E b \in {IF Dispatched(p.opcode)
                          THEN pack_tts_packet(response', c.buf)
                          ELSE [buf |-> c.buf, size |-> c.size]} :
                   \* ev_tcp_enqueue_write; epoll_ctl fails on a closed fd
                   conn' = [met EXCEPT
                              !.buf = b.buf, !.size = b.size,
                              !.armed = IF c.state = "open" THEN "WRITE"
                                        ELSE c.armed,
                              !.resp = MemGet(b.buf, 0, b.size),
                              !.out = <<>>]

(***************************************************************************)
(* ev_tcp.h: reading, writing and closing                                  *)
(***************************************************************************)
\* the third argument of read(2): what is left of size behind the bytes held
ReadCount(size, held) == size - held

\* a buffer that grows by half of its capacity
Grown_ByHalf(capacity) == capacity + capacity \div 2

\* client->buffer.capacity *= 2
Grown(capacity) == capacity * 2

\* the do-while of ev_tcp_read; size was fixed before the loop.  read(2) is
\* called until it returns 0 or EAGAIN: the bytes that have arrived are
\* appended to the buffer, at most ReadCount of them, and the buffer is
\* doubled when they fill it.  0 is returned when the peer has closed, and
\* also by the read of 0 bytes that follows a fill; the size of the buffer
\* otherwise.
RECURSIVE ReadLoop(_, _)
ReadLoop(c, size) ==
    IF ReadCount(size, c.size) = 0 THEN [c |-> c, ret |-> 0]
    ELSE IF c.inbox = <<>>
    THEN [c |-> c, ret |-> IF c.fin THEN 0 ELSE c.size]
    ELSE
        LET n == Min2(Len(c.inbox), ReadCount(size, c.size))
            held == [c EXCEPT
                       !.buf = MemPut(c.buf, c.size, SubSeq(c.inbox, 1, n)),
                       !.size = @ + n,
                       !.nread = @ + n,
                       !.inbox = SubSeq(c.inbox, n + 1, Len(c.inbox))]
        IN  ReadLoop(IF held.size = held.capacity
                     THEN [held EXCEPT !.capacity = Grown(@)]
                     ELSE held,
                     size)

ev_tcp_read(c) ==
    ReadLoop(c, IF c.to_read > 0 THEN c.to_read ELSE c.capacity)

\* ev_del_fd, close, then free of the connection, the buffer and the handle
ev_tcp_close_connection(c) == [c EXCEPT !.state = "closed", !.armed = "NONE"]

\* the handle is read after its free: the process ends, or the freed
\* memory still holds what it held
FreedOutcomes == {"segv", "stale"}

on_recv ==
    /\ UNCHANGED <<codec, ctx>>
    /\ fault = "none"
    /\ conn.state = "open"
    /\ conn.armed = "READ"
    /\ conn.inbox # <<>> \/ conn.fin
    /\ \E r \in {ev_tcp_read(conn)} :
          IF r.ret = EV_TCP_SUCCESS
          THEN \E outcome \in FreedOutcomes,
                  freed \in {[ev_tcp_close_connection(r.c)
                                 EXCEPT !.uaf = TRUE]} :
                  IF outcome = "segv"
                  THEN /\ fault' = "segv"
                       /\ conn' = freed
                       /\ UNCHANGED <<db, req, clock, response, oob,
                                      inserted, lifecycle>>
                  ELSE on_data(freed)
          ELSE IF r.c.to_read > 0 /\ r.c.size < r.c.to_read
          THEN \* errno is the EAGAIN that ended the loop of ev_tcp_read
               /\ conn' = [r.c EXCEPT !.to_read = @ - r.c.size,
                                      !.armed = "READ"]
               /\ UNCHANGED <<db, req, clock, response, fault, oob,
                              inserted, lifecycle>>
          ELSE on_data(r.c)

\* what the socket takes at each call of write(2), EAGAIN behind the last
WriteCounts == {1, 2, EV_TCP_BUFSIZE}
WriteSchedules == UNION {[1..k -> WriteCounts] : k \in 0..MaxWrites}

\* the loop of ev_tcp_write: each call starts at buf + n, n being what the
\* call before it returned, 0 for the first
RECURSIVE WriteLoop(_, _, _, _)
WriteLoop(c, n, sched, i) ==
    IF c.size = 0 \/ i > Len(sched) THEN c
    ELSE LET k == Min2(sched[i], c.size)
         IN  WriteLoop([c EXCEPT !.out = @ \o MemGet(c.buf, n, k),
                                 !.size = @ - k],
                       k, sched, i + 1)

ev_tcp_write(c, sched) == WriteLoop(c, 0, sched, 1)

\* bytes are left and errno is EAGAIN: ev_tcp_enqueue_write; else the
\* on_write of tts_server.c, which logs
on_send ==
    /\ UNCHANGED <<codec, ctx>>
    /\ fault = "none"
    /\ conn.state = "open"
    /\ conn.armed = "WRITE"
    /\ \E sched \in WriteSchedules :
          \E c \in {ev_tcp_write(conn, sched)} :
             conn' = [c EXCEPT !.armed = "WRITE"]
    /\ UNCHANGED <<db, req, clock, response, fault, oob, inserted, lifecycle>>

(***************************************************************************)
(* The connection and its peer.                                            *)
(***************************************************************************)
\* the response is written and nothing arms the fd for reading again
Drained(c) == c.state = "open" /\ c.armed = "WRITE" /\ c.size = 0

\* ev_buf_init: no byte held, the capacity asked for
ev_buf_init(c, capacity) == [c EXCEPT !.size = 0, !.capacity = capacity]

\* on_connection: the handle of a new client, its buffer calloc'ed and
\* empty, its fd registered for EV_READ; the connection before it is left
Accept ==
    /\ UNCHANGED <<codec, ctx>>
    /\ fault = "none"
    /\ conn.accepted < MaxConnections
    /\ conn.state # "open" \/ Drained(conn)
    /\ conn' = [ev_buf_init(NoConnection, EV_TCP_BUFSIZE) EXCEPT
                   !.state = "open", !.armed = "READ",
                   !.accepted = conn.accepted + 1]
    /\ UNCHANGED <<db, req, clock, response, fault, oob, inserted, lifecycle>>

\* the peer is followed while the fd of its connection is armed for reading:
\* what arrives later stays in the socket, nothing arms the fd for reading
\* once on_data has armed it for writing
Listening(c) == c.state = "open" /\ c.armed = "READ"

PeerSend ==
    /\ UNCHANGED <<codec, ctx>>
    /\ fault = "none"
    /\ Listening(conn)
    /\ ~conn.fin
    /\ Len(conn.posted) < MaxRequests
    /\ \E p \in NetPackets :
          conn' = [conn EXCEPT !.wire = @ \o p,
                               !.posted = Append(@, Len(p))]
    /\ UNCHANGED <<db, req, clock, response, fault, oob, inserted, lifecycle>>

\* the bytes reach the socket of the server in segments: one that ends
\* inside the five framing bytes, one that ends inside the body, or all
SegmentLengths(wire) == {Min2(k, Len(wire)) : k \in {3, 6, EV_TCP_BUFSIZE}}

Deliver ==
    /\ UNCHANGED <<codec, ctx>>
    /\ fault = "none"
    /\ Listening(conn)
    /\ conn.wire # <<>>
    /\ \E k \in SegmentLengths(conn.wire) :
          conn' = [conn EXCEPT !.inbox = @ \o SubSeq(conn.wire, 1, k),
                               !.wire = SubSeq(@, k + 1, Len(@))]
    /\ UNCHANGED <<db, req, clock, response, fault, oob, inserted, lifecycle>>

\* the peer closes behind the last byte it has sent
PeerClose ==
    /\ UNCHANGED <<codec, ctx>>
    /\ fault = "none"
    /\ Listening(conn)
    /\ ~conn.fin
    /\ conn.wire = <<>>
    /\ conn' = [conn EXCEPT !.fin = TRUE]
    /\ UNCHANGED <<db, req, clock, response, fault, oob, inserted, lifecycle>>

NextNet == Accept \/ PeerSend \/ Deliver \/ PeerClose \/ on_recv \/ on_send

NetSpec == Init /\ [][NextNet]_vars

(***************************************************************************)
(* The connection of a peer whose requests fill the buffer: packets of     *)
(* EV_TCP_BUFSIZE bytes and more, beside a short one.                      *)
(***************************************************************************)
\* a request of total bytes in all: its body is the length of a name, the
\* name, and zero bytes behind it
PaddedRequest(opcode, name, total) ==
    <<HeaderByte(TTS_REQUEST, opcode, TTS_OK)>>
        \o PackU32(total - (HEADER_SIZE + LENGTH_SIZE))
        \o <<Len(NameBytes(name))>> \o NameBytes(name)
        \o [i \in 1..(total - (HEADER_SIZE + LENGTH_SIZE)
                          - (1 + Len(NameBytes(name)))) |-> 0]

FloodPackets ==
    {PaddedRequest(TTS_DELETE_TS, "ab", EV_TCP_BUFSIZE),
     PaddedRequest(UnsupportedOpcode, "a", EV_TCP_BUFSIZE + 1),
     NamedRequest(TTS_CREATE_TS, 1, "a")}

\* the peer is followed up to its first request
PeerFlood ==
    /\ UNCHANGED <<codec, ctx>>
    /\ fault = "none"
    /\ Listening(conn)
    /\ ~conn.fin
    /\ conn.posted = <<>>
    /\ \E p \in FloodPackets :
          conn' = [conn EXCEPT !.wire = @ \o p,
                               !.posted = Append(@, Len(p))]
    /\ UNCHANGED <<db, req, clock, response, fault, oob, inserted, lifecycle>>

\* the request reaches the socket of the server in two segments at most
DeliverFlood ==
    /\ UNCHANGED <<codec, ctx>>
    /\ fault = "none"
    /\ Listening(conn)
    /\ conn.wire # <<>>
    /\ \E k \in IF conn.nread = 0 /\ conn.inbox = <<>>
                THEN SegmentLengths(conn.wire) ELSE {Len(conn.wire)} :
          conn' = [conn EXCEPT !.inbox = @ \o SubSeq(conn.wire, 1, k),
                               !.wire = SubSeq(@, k + 1, Len(@))]
    /\ UNCHANGED <<db, req, clock, response, fault, oob, inserted, lifecycle>>

NextFlood ==
    Accept \/ PeerFlood \/ DeliverFlood \/ PeerClose \/ on_recv \/ on_send

FloodSpec == Init /\ [][NextFlood]_vars

(***************************************************************************)
(* ev.h: the reactor, with the epoll backend.  A mask is the set of its    *)
(* flags; the events of a descriptor in epoll are a subset of IN, OUT;     *)
(* a callback is the name of its function.                                 *)
(***************************************************************************)
EV_NONE == {}

\* struct ev as calloc leaves it
ZeroSlot ==
    [fd |-> 0, mask |-> EV_NONE, rcallback |-> "NULL", wcallback |-> "NULL"]

\* struct ev in memory that realloc added: the mask is what the memory held
JunkSlot(junk) ==
    [fd |-> 0, mask |-> junk, rcallback |-> "junk", wcallback |-> "junk"]

\* what the mask of such a slot may hold
JunkMasks == {EV_NONE, {"CLOSEFD"}}

\* the epoll set: descriptor -> events asked for
NoInterest == [fd \in {} |-> {}]

\* no ev_process_event has run yet
NoEvent == [fd |-> -1, mask |-> EV_NONE, calls |-> <<>>, fired |-> 0]

\* ev_init(ctx, events_nr), ev_api_init included.  History fields: outside,
\* a slot outside events_monitored was accessed; raw, a mask was or-ed into a
\* slot that no statement had set; last, the ev_process_event before;
\* registrations, the calls that added a descriptor.
ev_init(events_nr) ==
    [stage |-> "idle", stop |-> 0, is_running |-> 0,
     maxevents |-> events_nr, events_nr |-> events_nr,
     events_monitored |-> [i \in 0..(events_nr - 1) |-> ZeroSlot],
     interest |-> NoInterest, quit_sig |-> -1, quit |-> 0, batch |-> <<>>, idx |-> 0,
     last |-> NoEvent, crashed |-> FALSE, outside |-> FALSE, raw |-> FALSE,
     registrations |-> 0]

\* the slot of fd, or what lies behind the array
SlotOf(c, fd, junk) ==
    IF fd \in DOMAIN c.events_monitored THEN c.events_monitored[fd]
    ELSE JunkSlot(junk)

\* ev_add_monitored(ctx, fd, mask, callback, ptr)
ev_add_monitored(c, fd, mask, callback, junk) ==
    LET resized == fd > c.maxevents
        realloced == resized /\ fd > c.events_nr
        grown == IF realloced
                 THEN [i \in 0..fd |-> SlotOf(c, i, junk)]
                 ELSE c.events_monitored
        cleared == [i \in DOMAIN grown |->
                       IF realloced /\ i >= c.maxevents /\ i < fd
                       THEN [grown[i] EXCEPT !.mask = EV_NONE]
                       ELSE grown[i]]
        sized == [c EXCEPT !.maxevents = IF resized THEN fd ELSE @,
                           !.events_monitored = cleared]
    IN  IF fd \notin DOMAIN cleared
        THEN [sized EXCEPT !.outside = TRUE]
        ELSE [sized EXCEPT
                !.events_monitored[fd] =
                    [fd |-> fd,
                     mask |-> @.mask \cup mask,
                     rcallback |-> IF "READ" \in mask THEN callback
                                   ELSE @.rcallback,
                     wcallback |-> IF "WRITE" \in mask THEN callback
                                   ELSE @.wcallback],
                !.raw = @ \/ fd \notin DOMAIN c.events_monitored]

\* epoll_add: EEXIST for a descriptor that is in the set
epoll_add(c, fd, evs) ==
    IF fd \in DOMAIN c.interest THEN c
    ELSE [c EXCEPT !.interest =
             [d \in DOMAIN c.interest \cup {fd} |->
                 IF d = fd THEN evs ELSE c.interest[d]]]

\* epoll_mod: ENOENT for a descriptor that is not in the set
epoll_mod(c, fd, evs) ==
    IF fd \in DOMAIN c.interest THEN [c EXCEPT !.interest[fd] = evs] ELSE c

\* the op of ev_api_register_event and ev_api_fire_event
EpollOp(mask) ==
    (IF "READ" \in mask THEN {"IN"} ELSE {})
        \cup (IF "WRITE" \in mask THEN {"OUT"} ELSE {})

ev_watch_fd(c, fd, mask, junk) ==
    epoll_add(ev_add_monitored(c, fd, mask, "NULL", junk), fd, {"IN"})

ev_register_event(c, fd, mask, callback, junk) ==
    epoll_add(ev_add_monitored(c, fd, mask, callback, junk), fd,
              EpollOp(mask))

ev_fire_event(c, fd, mask, callback, junk) ==
    IF "EVENTFD" \in mask
    THEN epoll_add(ev_add_monitored(c, fd, mask, callback, junk), fd,
                   EpollOp(mask))
    ELSE epoll_mod(ev_add_monitored(c, fd, mask, callback, junk), fd,
                   EpollOp(mask))

\* the timerfd is fd
ev_register_cron(c, fd, callback, junk) ==
    epoll_add(ev_add_monitored(c, fd, {"TIMERFD", "READ"}, callback, junk),
              fd, {"IN"})

ev_stop(c) == [c EXCEPT !.is_running = 0, !.stop = 1]

\* ev_get_ev_context: the context with the eventfd of the signal handler
ev_get_ev_context(events_nr, quit_sig) ==
    ev_register_event([ev_init(events_nr) EXCEPT !.quit_sig = quit_sig],
                      quit_sig, {"CLOSEFD", "READ"}, "ev_stop_callback",
                      EV_NONE)

\* ev_api_get_event_type for the epoll_event e
ev_api_get_event_type(c, e, junk) ==
    LET ev_mask == SlotOf(c, e.fd, junk).mask
    IN  (IF ev_mask \cap {"CLOSEFD", "TIMERFD"} # {} THEN ev_mask ELSE EV_NONE)
            \cup (IF "HUP" \in e.events THEN {"DISCONNECT"} ELSE {})
            \cup (IF "IN" \in e.events THEN {"READ"} ELSE {})
            \cup (IF "OUT" \in e.events THEN {"WRITE"} ELSE {})

\* what a callback does to the context: ev_stop_callback stops the loop; R
\* stands for a read callback that arms its descriptor for writing with the
\* callback B, as on_recv of ev_tcp.h does through ev_tcp_enqueue_write; a
\* call through a pointer that is NULL or was never set ends the process
Called(c, callback, fd, junk) ==
    IF callback = "ev_stop_callback" THEN ev_stop(c)
    ELSE IF callback = "R" THEN ev_fire_event(c, fd, {"WRITE"}, "B", junk)
    ELSE IF callback \in {"NULL", "junk"} THEN [c EXCEPT !.crashed = TRUE]
    ELSE c

\* the write callback whatever has fired
WriteFires_Always(fired, rcallback, wcallback) == TRUE

\* if (!fired || e->wcallback != e->rcallback)
WriteFires(fired, rcallback, wcallback) ==
    fired = 0 \/ wcallback # rcallback

\* ev_process_event for the epoll_event e and its mask; readable tells
\* whether the read of the eventfd or timerfd gives its 8 bytes.  The
\* context after it, last holding the callbacks called in their order.  No
\* descriptor here is registered with EV_EVENTFD, whose close is left out.
ev_process_event(c, e, mask, readable, junk) ==
    LET fd == SlotOf(c, e.fd, junk).fd
        rcallback == SlotOf(c, e.fd, junk).rcallback
        done(cc, calls) ==
            [cc EXCEPT !.last = [fd |-> e.fd, mask |-> mask, calls |-> calls,
                                 fired |-> Len(calls)]]
    IN  IF mask = EV_NONE THEN done(c, <<>>)
        ELSE IF "CLOSEFD" \in mask
        THEN IF ~readable THEN done(c, <<>>)
             ELSE done(Called([c EXCEPT !.quit = IF e.fd = c.quit_sig THEN 0
                                                 ELSE @],
                              rcallback, e.fd, junk),
                       <<[kind |-> "read", callback |-> rcallback]>>)
        ELSE IF mask \cap {"EVENTFD", "TIMERFD"} # {} /\ ~readable
        THEN done(c, <<>>)
        ELSE
            LET read == IF "READ" \in mask
                        THEN Called(c, rcallback, e.fd, junk) ELSE c
                fired == IF "READ" \in mask THEN 1 ELSE 0
                first == IF "READ" \in mask
                         THEN <<[kind |-> "read", callback |-> rcallback]>>
                         ELSE <<>>
                r == SlotOf(read, e.fd, junk).rcallback
                w == SlotOf(read, e.fd, junk).wcallback
            IN  IF "WRITE" \in mask /\ ~read.crashed
                   /\ WriteFires(fired, r, w)
                THEN done(Called(read, w, e.fd, junk),
                          Append(first, [kind |-> "write", callback |-> w]))
                ELSE done(read, first)

\* the capacity given to ev_init, EVENTLOOP_MAX_EVENTS scaled down
EventsNr == 4

\* the calls that add a descriptor before the loop runs
MaxRegistrations == 1

\* the eventfd of ev_get_ev_context
QuitFd == EventsNr - 1

\* descriptors below the capacity, equal to it and above it
Fds == {EventsNr - 2, EventsNr, EventsNr + 1}

EventMasks == {{"READ"}, {"WRITE"}, {"READ", "WRITE"}}

Callbacks == {"A", "R"}

\* the non-empty sets of events epoll may report for fd: the eventfd is
\* readable once it was written to, any other descriptor at any time
Ready(c, fd) ==
    IF fd = c.quit_sig
    THEN IF c.quit > 0 /\ "IN" \in c.interest[fd] THEN {{"IN"}} ELSE {}
    ELSE SUBSET c.interest[fd] \ {{}}

\* the epoll_events of the descriptors fds in every order
RECURSIVE Batches(_, _)
Batches(c, fds) ==
    IF fds = {} THEN {<<>>}
    ELSE UNION {{<<[fd |-> fd, events |-> evs]>> \o rest :
                    evs \in Ready(c, fd), rest \in Batches(c, fds \ {fd})} :
                fd \in fds}

\* what ev_poll may return: some of the ready descriptors
Polled(c) ==
    UNION {Batches(c, fds) : fds \in SUBSET DOMAIN c.interest \ {{}}}

InitEv ==
    /\ ServerInit
    /\ codec = NoCodec
    /\ ctx = ev_get_ev_context(EventsNr, QuitFd)

Registering ==
    /\ fault = "none"
    /\ ctx.stage = "idle"
    /\ ctx.registrations < MaxRegistrations

Registered(c) == [c EXCEPT !.registrations = @ + 1]

EvWatchFd ==
    /\ UNCHANGED <<db, req, clock, response, fault, oob, inserted, lifecycle,
                   conn, codec>>
    /\ Registering
    /\ \E fd \in Fds, junk \in JunkMasks :
           ctx' = Registered(ev_watch_fd(ctx, fd, {"READ"}, junk))

EvRegisterEvent ==
    /\ UNCHANGED <<db, req, clock, response, fault, oob, inserted, lifecycle,
                   conn, codec>>
    /\ Registering
    /\ \E fd \in Fds, mask \in EventMasks, callback \in Callbacks,
          junk \in JunkMasks :
           ctx' = Registered(ev_register_event(ctx, fd, mask, callback, junk))

EvFireEvent ==
    /\ UNCHANGED <<db, req, clock, response, fault, oob, inserted, lifecycle,
                   conn, codec>>
    /\ Registering
    /\ \E fd \in Fds, mask \in EventMasks, callback \in Callbacks,
          junk \in JunkMasks :
           ctx' = Registered(ev_fire_event(ctx, fd, mask, callback, junk))

EvRegisterCron ==
    /\ UNCHANGED <<db, req, clock, response, fault, oob, inserted, lifecycle,
                   conn, codec>>
    /\ Registering
    /\ \E fd \in Fds, callback \in Callbacks, junk \in JunkMasks :
           ctx' = Registered(ev_register_cron(ctx, fd, callback, junk))

\* ev_sigint_handler: eventfd_write(quit_sig, 1)
Sigint ==
    /\ UNCHANGED <<db, req, clock, response, fault, oob, inserted, lifecycle,
                   conn, codec>>
    /\ fault = "none"
    /\ ctx.stage # "returned"
    /\ ctx.quit = 0
    /\ ctx' = [ctx EXCEPT !.quit = 1]

\* ev_run up to the test of its loop
EvRun ==
    /\ UNCHANGED <<db, req, clock, response, fault, oob, inserted, lifecycle,
                   conn, codec>>
    /\ fault = "none"
    /\ ctx.stage = "idle"
    /\ ctx' = [ctx EXCEPT !.stage = "loop", !.is_running = 1]

\* while (!ctx->stop) and the ev_poll of the iteration
EvPoll ==
    /\ UNCHANGED <<db, req, clock, response, fault, oob, inserted, lifecycle,
                   conn, codec>>
    /\ fault = "none"
    /\ ctx.stage = "loop"
    /\ ctx.stop = 0
    /\ \E batch \in Polled(ctx) :
           ctx' = [ctx EXCEPT !.stage = "batch", !.batch = batch, !.idx = 0]

\* one turn of for (int i = 0; i < n; ++i) in ev_run: the context after
\* the event at i was processed
Turned(c, readable, junk) ==
    LET e == c.batch[c.idx + 1]
        mask == ev_api_get_event_type(c, e, junk)
    IN  [ev_process_event(c, e, mask, readable, junk) EXCEPT
            !.idx = @ + 1,
            !.stage = IF c.idx + 1 = Len(c.batch) THEN "loop" ELSE @]

\* the read of an eventfd that was written to, and of a timerfd that is
\* reported, gives its 8 bytes
Readable(c, readable, junk) ==
    LET e == c.batch[c.idx + 1]
    IN  (e.fd = c.quit_sig \/ "TIMERFD" \in SlotOf(c, e.fd, junk).mask)
            => readable

EvProcessEvent ==
    /\ UNCHANGED <<db, req, clock, response, oob, inserted, lifecycle, conn,
                   codec>>
    /\ fault = "none"
    /\ ctx.stage = "batch"
    /\ \E junk \in JunkMasks, readable \in BOOLEAN :
           /\ Readable(ctx, readable, junk)
           /\ ctx' = Turned(ctx, readable, junk)
           /\ fault' = IF ctx'.crashed THEN "segv" ELSE fault

\* while (!ctx->stop) finds the flag set: return n
EvReturn ==
    /\ UNCHANGED <<db, req, clock, response, fault, oob, inserted, lifecycle,
                   conn, codec>>
    /\ fault = "none"
    /\ ctx.stage = "loop"
    /\ ctx.stop = 1
    /\ ctx' = [ctx EXCEPT !.stage = "returned"]

NextEv ==
    \/ EvWatchFd
    \/ EvRegisterEvent
    \/ EvFireEvent
    \/ EvRegisterCron
    \/ Sigint
    \/ EvRun
    \/ EvPoll
    \/ EvProcessEvent
    \/ EvReturn

EvSpec == InitEv /\ [][NextEv]_vars

(***************************************************************************)
(* The loop of the server: the context of ev_get_ev_context with the       *)
(* descriptor of one client registered for reading with on_recv, whose     *)
(* requests go to the handlers, and the signal that stops it.              *)
(***************************************************************************)
ClientFd == EventsNr - 2

InitStop ==
    /\ ServerInit
    /\ codec = NoCodec
    /\ ctx = ev_register_event(ev_get_ev_context(EventsNr, QuitFd), ClientFd,
                               {"READ"}, "on_recv", EV_NONE)

\* epoll_wait reports every descriptor that is ready when they are no more
\* than events_nr: the eventfd is in the batch once it was written to
Delivered(c) ==
    {batch \in Polled(c) :
        c.quit > 0 => \E i \in DOMAIN batch : batch[i].fd = c.quit_sig}

StopPoll ==
    /\ UNCHANGED <<db, req, clock, response, fault, oob, inserted, lifecycle,
                   conn, codec>>
    /\ fault = "none"
    /\ ctx.stage = "loop"
    /\ ctx.stop = 0
    /\ \E batch \in Delivered(ctx) :
           ctx' = [ctx EXCEPT !.stage = "batch", !.batch = batch, !.idx = 0]

\* the event at i is the one of the eventfd
StopEvent ==
    /\ UNCHANGED <<db, req, clock, response, fault, oob, inserted, lifecycle,
                   conn, codec>>
    /\ fault = "none"
    /\ ctx.stage = "batch"
    /\ ctx.batch[ctx.idx + 1].fd = ctx.quit_sig
    /\ ctx' = Turned(ctx, TRUE, EV_NONE)

\* the event at i is the one of the client: on_recv returns once the handler
\* of the request has returned
ClientEvent ==
    /\ fault = "none"
    /\ ctx.stage = "batch"
    /\ ctx.batch[ctx.idx + 1].fd = ClientFd

\* the requests of the client: points of one value, and averages over the
\* whole timeseries and over its points from the first timestamp on
ServedPoints == {p \in QueryPoints : \A v \in Values : p.value <= v}

ServedQueries ==
    {AllQuery}
        \cup {q \in RangeQueries :
                 q.bits.major_of = 1 /\ \A t \in QueryTimes : q.major_of <= t}

ServeAddpoints ==
    /\ UNCHANGED <<conn, codec>>
    /\ ClientEvent
    /\ \E n \in QueryNames, p \in ServedPoints, tv \in Clocks :
           /\ HASH_PRESENT(db, n) =>
                 /\ TTS_VECTOR_SIZE(db[n].timestamps) < MaxSeries
                 /\ \A i \in 1..Len(db[n].timestamps.data) :
                       db[n].timestamps.data[i] <= p.ts_nsec
           /\ handle_tts_addpoints(n, <<p>>, tv)
    /\ ctx' = IF fault' = "none" THEN Turned(ctx, TRUE, EV_NONE) ELSE ctx

ServeQuery ==
    /\ UNCHANGED <<conn, codec>>
    /\ ClientEvent
    /\ \E n \in QueryNames, q \in ServedQueries, w \in MeanWindowValues,
          junk \in Indeterminate :
           handle_tts_query(n, MeanOf(q, w), junk)
    /\ ctx' = IF fault' = "none" THEN Turned(ctx, TRUE, EV_NONE) ELSE ctx

\* the steps of the thread that runs ev_run
NextLoop ==
    \/ StopPoll
    \/ StopEvent
    \/ ServeAddpoints
    \/ ServeQuery
    \/ EvReturn

NextStop ==
    \/ EvRun
    \/ Sigint
    \/ StopPoll
    \/ StopEvent
    \/ ServeAddpoints
    \/ ServeQuery
    \/ EvReturn

\* the thread goes on while it has a step to take
StopSpec == InitStop /\ [][NextStop]_vars /\ WF_vars(NextLoop)

(***************************************************************************)
(* tts_protocol.c: a packet encoded by pack_tts_packet into a buffer and   *)
(* decoded again by unpack_tts_packet.  A packet is its header and the     *)
(* members of its struct; the lengths of its strings are those of          *)
(* strlen.  No packet here is an ADDPOINTS or a QUERY.                     *)
(***************************************************************************)
\* the loop of pack_tts_create over the fields: pack "Hs" at buf, which
\* moves on by the field; len adds what pack returns
RECURSIVE PackFields(_, _, _, _)
PackFields(m, at, len, fields) ==
    IF fields = <<>> THEN [buf |-> m, at |-> at, len |-> len]
    ELSE LET field == NameBytes(Head(fields))
         IN  PackFields(MemPut(m, at, <<Len(field) \div 256, Len(field) % 256>>
                                          \o field),
                        at + 2 + Len(field), len + 2 + Len(field),
                        Tail(fields))

\* pack_tts_create with buf at the offset at
pack_tts_create(create, m, at) ==
    LET name == NameBytes(create.ts_name)
        named == MemPut(m, at + LENGTH_SIZE, <<Len(name)>> \o name)
        packed == PackFields(named, at + LENGTH_SIZE + 1 + Len(name),
                             1 + Len(name), create.fields)
    IN  [buf |-> MemPut(packed.buf, at, PackU32(packed.len)),
         end |-> packed.at,
         len |-> packed.len + 1]

\* pack_tts_delete with buf at the offset at
pack_tts_delete(drop, m, at) ==
    LET name == NameBytes(drop.ts_name)
        len == 1 + Len(name)
    IN  [buf |-> MemPut(m, at, PackU32(len) \o <<Len(name)>> \o name),
         end |-> at + LENGTH_SIZE + 1 + Len(name),
         len |-> (len + LENGTH_SIZE + 1 + Len(name)) - LENGTH_SIZE]

\* pack_tts_packet for the packet p: the header byte, then the body by the
\* switch; end is the offset behind the last byte written
PackedPacket(p, m) ==
    LET byte == HeaderByte(p.header.type, p.header.opcode, p.header.status)
        head == MemPut(m, 0, <<byte>>)
    IN  IF p.header.opcode = TTS_CREATE_TS
        THEN LET body == pack_tts_create(p, head, HEADER_SIZE)
             IN  [buf |-> body.buf, end |-> body.end,
                  ret |-> HEADER_SIZE + body.len + LENGTH_SIZE]
        ELSE IF p.header.opcode = TTS_DELETE_TS
        THEN LET body == pack_tts_delete(p, head, HEADER_SIZE)
             IN  [buf |-> body.buf, end |-> body.end,
                  ret |-> HEADER_SIZE + body.len + LENGTH_SIZE]
        ELSE [buf |-> pack_tts_packet(p.header, m).buf, end |-> HEADER_SIZE,
              ret |-> pack_tts_packet(p.header, m).size]

\* the loop of unpack_tts_create over the fields, len > 0: the fields, and
\* crash when the size_t len passes 0 and the loop reads on
RECURSIVE UnpackFields(_, _, _)
UnpackFields(m, at, len) ==
    IF len = 0 THEN [fields |-> <<>>, crash |-> FALSE]
    ELSE IF len < 0 THEN [fields |-> <<>>, crash |-> TRUE]
    ELSE LET field_len == UnpackU16(m, at)
             rest == UnpackFields(m, at + 2 + field_len,
                                  len - (2 + field_len))
         IN  [fields |-> <<NameOf(unpack_bytes(m, at + 2, field_len).dst)>>
                            \o rest.fields,
              crash |-> rest.crash]

\* the (field, value) pairs of a row of unpack_tts_query_response
RECURSIVE UnpackPairs(_, _, _)
UnpackPairs(m, at, n) ==
    IF n = 0 THEN [points |-> <<>>, at |-> at, len |-> 0]
    ELSE LET field_len == UnpackU16(m, at)
             value_at == at + 2 + field_len
             value_len == UnpackU16(m, value_at)
             rest == UnpackPairs(m, value_at + 2 + value_len, n - 1)
         IN  [points |->
                 <<[field |-> NameOf(unpack_bytes(m, at + 2, field_len).dst),
                    value |-> NameOf(unpack_bytes(m, value_at + 2,
                                                  value_len).dst)]>>
                     \o rest.points,
              at |-> rest.at,
              len |-> 2 + field_len + 2 + value_len + rest.len]

\* sizeof(uint8_t) + sizeof(uint16_t) + sizeof(uint64_t) * 2
ROW_SIZE == 19

\* unpack_tts_query_response: the rows while len > 0
RECURSIVE UnpackRows(_, _, _)
UnpackRows(m, at, len) ==
    IF len = 0 THEN [results |-> <<>>, crash |-> FALSE]
    ELSE IF len < 0 THEN [results |-> <<>>, crash |-> TRUE]
    ELSE LET res_len == UnpackU16(m, at + 17)
             pairs == UnpackPairs(m, at + ROW_SIZE, res_len)
             rest == UnpackRows(m, pairs.at, len - ROW_SIZE - pairs.len)
         IN  [results |-> <<[rc |-> MemAt(m, at),
                             ts_sec |-> unpacku64(m, at + 1),
                             ts_nsec |-> unpacku64(m, at + 9),
                             points |-> pairs.points]>> \o rest.results,
              crash |-> rest.crash]

\* unpack_tts_packet with every member of the packet
UnpackedPacket(m) ==
    LET byte == MemAt(m, 0)
        len == UnpackU32(m, HEADER_SIZE)
        at == HEADER_SIZE + LENGTH_SIZE
        header == [type |-> HeaderType(byte), opcode |-> HeaderOpcode(byte),
                   status |-> HeaderStatus(byte)]
        name_len == MemAt(m, at)
        ts_name == NameOf(unpack_bytes(m, at + 1, name_len).dst)
    IN  IF header.opcode = TTS_CREATE_TS
        THEN LET f == UnpackFields(m, at + 1 + name_len, len - (1 + name_len))
             IN  [p |-> [header |-> header, ts_name |-> ts_name,
                         fields |-> f.fields],
                  len |-> len, crash |-> f.crash]
        ELSE IF header.opcode = TTS_DELETE_TS
        THEN [p |-> [header |-> header, ts_name |-> ts_name],
              len |-> len, crash |-> FALSE]
        ELSE IF header.opcode = TTS_ACK
        THEN [p |-> [header |-> header, rc |-> MemAt(m, at)],
              len |-> len, crash |-> FALSE]
        ELSE IF header.opcode = TTS_QUERY_RESPONSE
        THEN LET r == UnpackRows(m, at, len)
             IN  [p |-> [header |-> header, results |-> r.results],
                  len |-> len, crash |-> r.crash]
        ELSE [p |-> [header |-> header], len |-> len, crash |-> FALSE]

\* the well-formed packets; an ACK is its header, whose status is the result
\* (tts_protocol.h), the rc that unpack_tts_ack reads being no member of it
RequestHeader(opcode) ==
    [type |-> TTS_REQUEST, opcode |-> opcode, status |-> TTS_OK]

ResponseHeader(opcode, status) ==
    [type |-> TTS_RESPONSE, opcode |-> opcode, status |-> status]

Statuses == {TTS_OK, TTS_ENOTS, TTS_UNKNOWN_CMD, TTS_EOOM}

ResultRows ==
    [rc : {TTS_OK}, ts_sec : {Int64(1)}, ts_nsec : {Int64(7)},
     points : {<<>>, <<[field |-> "a", value |-> "ab"]>>}]

CodecPackets ==
    {[header |-> RequestHeader(TTS_CREATE_TS), ts_name |-> n, fields |-> f] :
        n \in {"a", "ab"}, f \in SeqsUpTo({"a", "ab"}, 2)}
    \cup {[header |-> RequestHeader(TTS_DELETE_TS), ts_name |-> n] :
            n \in {"a", "ab"}}
    \cup {[header |-> ResponseHeader(TTS_ACK, rc)] : rc \in Statuses}
    \cup {[header |-> ResponseHeader(TTS_QUERY_RESPONSE, TTS_OK),
           results |-> r] : r \in SeqsUpTo(ResultRows, 1)}

\* what the buffer holds before: the zeros of calloc, or the request that
\* was read into it
UsedBuffers == {<<>>, NamedRequest(TTS_CREATE_TS, 1, "a")}

InitCodec ==
    /\ ServerInit
    /\ ctx = NoContext
    /\ codec \in {[stage |-> "drawn", p |-> p, buf |-> m] :
                     p \in CodecPackets, m \in UsedBuffers}

\* pack_tts_packet: body is the number of bytes written behind the length
Encode ==
    /\ UNCHANGED <<db, req, clock, response, fault, oob, inserted, lifecycle,
                   conn, ctx>>
    /\ codec.stage = "drawn"
    /\ \E packed \in {PackedPacket(codec.p, codec.buf)} :
           codec' = [stage |-> "encoded", p |-> codec.p, buf |-> packed.buf,
                     ret |-> packed.ret,
                     body |-> Max2(packed.end - (HEADER_SIZE + LENGTH_SIZE),
                                   0)]

\* unpack_tts_packet on the buffer
Decode ==
    /\ UNCHANGED <<db, req, clock, response, fault, oob, inserted, lifecycle,
                   conn, ctx>>
    /\ codec.stage = "encoded"
    /\ \E unpacked \in {UnpackedPacket(codec.buf)} :
           codec' = [stage |-> "decoded", p |-> codec.p, buf |-> codec.buf,
                     ret |-> codec.ret, body |-> codec.body,
                     out |-> unpacked.p, len |-> unpacked.len,
                     crash |-> unpacked.crash]

NextCodec == Encode \/ Decode

CodecSpec == InitCodec /\ [][NextCodec]_vars

(***************************************************************************)
(* What the claims compare: the sample stored at a position, and the       *)
(* sample a received point stands for.                                     *)
(***************************************************************************)
\* the sample at position i (from 1) of the two vectors of a timeseries
StoredSample(ts, i) ==
    [timestamp |-> ts.timestamps.data[i],
     value     |-> ts.columns.data[i].value,
     labels    |-> [j \in 1..Len(ts.columns.data[i].labels) |->
                      [label |-> ts.columns.data[i].labels[j].field,
                       value |-> ts.columns.data[i].labels[j].value]]]

\* the sample of a point received with the clock reading tv
Sample(point, tv) ==
    [timestamp |->
        (IF point.ts_sec_set = 1 THEN point.ts_sec ELSE tv.tv_sec) * 1000000000
        + (IF point.ts_nsec_set = 1 THEN point.ts_nsec ELSE tv.tv_nsec),
     value     |-> point.value,
     labels    |-> point.labels]

\* a timeseries with no timestamp, no record and no tag index entry
IsEmptySeries(ts) ==
    /\ ts.timestamps.size = 0 /\ ts.timestamps.data = <<>>
    /\ ts.columns.size = 0 /\ ts.columns.data = <<>>
    /\ DOMAIN ts.tags = {}

\* how many times the record pointer rp occurs in a record set
Occurrences(column, rp) ==
    Cardinality({i \in 1..Len(column.data) : column.data[i] = rp})

IsAck(r, s) ==
    /\ r.type = TTS_RESPONSE /\ r.opcode = TTS_ACK /\ r.status = s
    /\ r.results = <<>>

(***************************************************************************)
(* C1. Invariant T1, positional pairing: in every state reached by         *)
(* handled CREATE_TS, DELETE_TS, ADDPOINTS and QUERY requests, every       *)
(* timeseries of the registry has as many timestamps as records, and the   *)
(* record at position i holds the value and the labels of the very point   *)
(* whose timestamp is at position i.                                       *)
(***************************************************************************)
C1_PositionalPairing ==
    \A n \in DOMAIN db :
        /\ n \in DOMAIN inserted
        /\ db[n].timestamps.size = db[n].columns.size
        /\ Len(db[n].timestamps.data) = db[n].timestamps.size
        /\ Len(db[n].columns.data) = db[n].columns.size
        /\ db[n].timestamps.size = Len(inserted[n])
        /\ \A i \in 1..Len(inserted[n]) :
              StoredSample(db[n], i) =
                  Sample(inserted[n][i].point, inserted[n][i].tv)

\* two samples of different values stored against the order of their
\* timestamps, and a QUERY handled since
C1_Witness ==
    /\ req.opcode = TTS_QUERY
    /\ \E n \in DOMAIN db :
          /\ db[n].timestamps.size = 2
          /\ db[n].timestamps.data[1] > db[n].timestamps.data[2]
          /\ db[n].columns.data[1].value # db[n].columns.data[2].value

(***************************************************************************)
(* C2. Invariant T3, tag consistency: for every record r of a timeseries   *)
(* and every label pair (n, v) that r carries, the record set              *)
(* tag_index[n][v] contains r exactly once, and no record set              *)
(* tag_index[n][v2] with v2 # v contains r; also for points that carry a   *)
(* label name or a (name, value) pair more than once.                      *)
(***************************************************************************)
C2_TagConsistency ==
    \A n \in DOMAIN db :
        \A i \in 1..Len(db[n].columns.data) :
            LET r == db[n].columns.data[i]
                tags == db[n].tags
            IN  \A j \in 1..Len(r.labels) :
                    LET l == r.labels[j].field
                        v == r.labels[j].value
                    IN  /\ l \in DOMAIN tags
                        /\ v \in DOMAIN tags[l].tag
                        /\ Occurrences(tags[l].tag[v].column, r.index) = 1
                        /\ \A v2 \in DOMAIN tags[l].tag \ {v} :
                              Occurrences(tags[l].tag[v2].column, r.index) = 0

(***************************************************************************)
(* C3. Invariant T2, append-only insertion order: an ADDPOINTS request     *)
(* with k points for a timeseries of length n leaves the positions 1..n    *)
(* of both vectors unchanged and makes the length n + k, position n + j    *)
(* holding the j-th point of the packet, whatever the order of the         *)
(* timestamps.                                                             *)
(***************************************************************************)
C3_AppendOnly ==
    [][req'.opcode = TTS_ADDPOINTS =>
        LET n == req'.ts_name
            old_t == IF n \in DOMAIN db THEN db[n].timestamps.data ELSE <<>>
            old_c == IF n \in DOMAIN db THEN db[n].columns.data ELSE <<>>
            k == Len(req'.points)
        IN  /\ n \in DOMAIN db'
            /\ db'[n].timestamps.size = Len(old_t) + k
            /\ db'[n].columns.size = Len(old_c) + k
            /\ Len(db'[n].timestamps.data) = Len(old_t) + k
            /\ Len(db'[n].columns.data) = Len(old_c) + k
            /\ SubSeq(db'[n].timestamps.data, 1, Len(old_t)) = old_t
            /\ SubSeq(db'[n].columns.data, 1, Len(old_c)) = old_c
            /\ \A j \in 1..k :
                  StoredSample(db'[n], Len(old_t) + j) =
                      Sample(req'.points[j], clock')
    ]_vars

\* a point appended behind a stored sample of a later timestamp
C3_Witness ==
    /\ req.opcode = TTS_ADDPOINTS
    /\ Len(req.points) = 1
    /\ req.ts_name \in DOMAIN db
    /\ db[req.ts_name].timestamps.size = 2
    /\ db[req.ts_name].timestamps.data[2] < db[req.ts_name].timestamps.data[1]

(***************************************************************************)
(* C4. CREATE_TS(name, r) for a name absent from the registry makes the    *)
(* name present with retention r, no timestamp, no record and an empty     *)
(* tag index, and is answered with ACK OK.                                 *)
(***************************************************************************)
C4_CreateAbsent ==
    [][(req'.opcode = TTS_CREATE_TS /\ req'.ts_name \notin DOMAIN db) =>
        /\ req'.ts_name \in DOMAIN db'
        /\ db'[req'.ts_name].name = req'.ts_name
        /\ db'[req'.ts_name].retention = req'.retention
        /\ IsEmptySeries(db'[req'.ts_name])
        /\ IsAck(response', TTS_OK)
    ]_vars

\* a timeseries just created with a retention other than 0
C4_Witness ==
    /\ req.opcode = TTS_CREATE_TS
    /\ response.status = TTS_OK
    /\ req.retention # 0
    /\ req.ts_name \in DOMAIN db
    /\ db[req.ts_name].retention = req.retention

(***************************************************************************)
(* C5. CREATE_TS for a name that exists leaves the registry as it is: the  *)
(* timeseries keeps its retention, timestamps, records and tag index, also *)
(* when the request carries another retention.                             *)
(***************************************************************************)
C5_CreateExistingUnchanged ==
    [][(req'.opcode = TTS_CREATE_TS /\ req'.ts_name \in DOMAIN db) =>
        db' = db
    ]_vars

\* a CREATE_TS with another retention handled on a timeseries that holds
\* samples
C5_Witness ==
    /\ req.opcode = TTS_CREATE_TS
    /\ response.status = TTS_ENOTS
    /\ req.ts_name \in DOMAIN db
    /\ db[req.ts_name].retention # req.retention
    /\ db[req.ts_name].timestamps.size > 0

C7_DeleteExisting ==
    [][(req'.opcode = TTS_DELETE_TS /\ req'.ts_name \in DOMAIN db) =>
        /\ ~HASH_PRESENT(db', req'.ts_name)
        /\ IsAck(response', TTS_OK)
    ]_vars

\* a timeseries that held labelled samples was just deleted
C7_Witness ==
    /\ req.opcode = TTS_DELETE_TS
    /\ lifecycle.stage = "deleted"
    /\ lifecycle.tagged
    /\ req.ts_name \notin DOMAIN db

(***************************************************************************)
(* C8. DELETE_TS(name) for a name absent from the registry is answered     *)
(* with ACK NOT_FOUND and leaves the registry unchanged.                   *)
(***************************************************************************)
C8_DeleteAbsent ==
    [][(req'.opcode = TTS_DELETE_TS /\ req'.ts_name \notin DOMAIN db) =>
        /\ db' = db
        /\ IsAck(response', TTS_ENOTS)
    ]_vars

\* a DELETE_TS answered NOT_FOUND while another name holds samples
C8_Witness ==
    /\ req.opcode = TTS_DELETE_TS
    /\ IsAck(response, TTS_ENOTS)
    /\ req.ts_name \notin DOMAIN db
    /\ \E n \in DOMAIN db : db[n].timestamps.size > 0

(***************************************************************************)
(* C9. After a timeseries that received labelled points is deleted, a      *)
(* CREATE_TS(name, r) of the same name yields a timeseries with no         *)
(* timestamp, no record and no tag index entry left from before.           *)
(***************************************************************************)
C9_DeleteThenCreate ==
    lifecycle.stage = "recreated" =>
        /\ lifecycle.name \in DOMAIN db
        /\ IsEmptySeries(db[lifecycle.name])
        /\ db[lifecycle.name].retention = req.retention

\* the deleted timeseries had received labelled points
C9_Witness ==
    /\ lifecycle.stage = "recreated"
    /\ lifecycle.tagged
    /\ req.opcode = TTS_CREATE_TS
    /\ req.retention # 0

(***************************************************************************)
(* C10. ADDPOINTS(name, points) for a name that is absent creates the      *)
(* timeseries with retention 0, appends the points and is answered with    *)
(* ACK OK: the name then exists with exactly the points of the packet.     *)
(***************************************************************************)
C10_AutoCreate ==
    [][(req'.opcode = TTS_ADDPOINTS /\ req'.ts_name \notin DOMAIN db) =>
        /\ req'.ts_name \in DOMAIN db'
        /\ db'[req'.ts_name].name = req'.ts_name
        /\ db'[req'.ts_name].retention = 0
        /\ db'[req'.ts_name].timestamps.size = Len(req'.points)
        /\ db'[req'.ts_name].columns.size = Len(req'.points)
        /\ Len(db'[req'.ts_name].timestamps.data) = Len(req'.points)
        /\ Len(db'[req'.ts_name].columns.data) = Len(req'.points)
        /\ \A j \in 1..Len(req'.points) :
              StoredSample(db'[req'.ts_name], j) =
                  Sample(req'.points[j], clock')
        /\ IsAck(response', TTS_OK)
    ]_vars

\* a timeseries created by a packet of two points, one of which takes its
\* timestamp from the clock
C10_Witness ==
    /\ req.opcode = TTS_ADDPOINTS
    /\ lifecycle.stage = "autocreated"
    /\ Len(req.points) = 2
    /\ \E j \in 1..2 : req.points[j].ts_sec_set = 0 /\ req.points[j].ts_nsec_set = 0
    /\ db[req.ts_name].timestamps.size = 2

(***************************************************************************)
(* C11. A QUERY of any shape for a name absent from the registry, never    *)
(* created or created and then deleted, is answered with an ACK of status  *)
(* NOT_FOUND and not with a QUERY_RESPONSE, and leaves the registry        *)
(* unchanged.                                                              *)
(***************************************************************************)
C11_QueryAbsent ==
    [][(req'.opcode = TTS_QUERY /\ req'.ts_name \notin DOMAIN db) =>
        /\ IsAck(response', TTS_ENOTS)
        /\ response'.opcode # TTS_QUERY_RESPONSE
        /\ fault' = "none"
        /\ db' = db
    ]_vars

\* an average over a range asked of a name that was created and then deleted
C11_Witness ==
    /\ req.opcode = TTS_QUERY
    /\ req.bits.mean = 1 /\ req.bits.major_of = 1
    /\ lifecycle.stage = "deleted" /\ lifecycle.name = req.ts_name
    /\ req.ts_name \notin DOMAIN db
    /\ IsAck(response, TTS_ENOTS)

(***************************************************************************)
(* C12. A QUERY with no flag set on an existing timeseries of length n is  *)
(* answered with a QUERY_RESPONSE of exactly n rows in storage order: row  *)
(* i has rc = OK, the value and the label list (in order) of the stored    *)
(* sample i, and ts_sec, ts_nsec with ts_sec * 10^9 + ts_nsec equal to the *)
(* stored timestamp i and ts_nsec < 10^9.                                  *)
(***************************************************************************)
C12_QueryAll ==
    (/\ req.opcode = TTS_QUERY
     /\ req.bits = AllQuery.bits
     /\ req.ts_name \in DOMAIN db) =>
        LET ts == db[req.ts_name]
        IN  /\ fault = "none"
            /\ response.type = TTS_RESPONSE
            /\ response.opcode = TTS_QUERY_RESPONSE
            /\ Len(response.results) = Len(ts.timestamps.data)
            /\ \A i \in 1..Len(ts.timestamps.data) :
                  LET row == response.results[i]
                      s == StoredSample(ts, i)
                  IN  /\ row.rc = TTS_OK
                      /\ row.value = s.value
                      /\ row.labels = s.labels
                      /\ row.ts_sec * 1000000000 + row.ts_nsec = s.timestamp
                      /\ row.ts_nsec >= 0 /\ row.ts_nsec < 1000000000

(***************************************************************************)
(* What the claims on queries compare: the query just handled, the         *)
(* timeseries it was asked of, and the rows a selection of samples should  *)
(* give.                                                                   *)
(***************************************************************************)
\* the last request is a QUERY with these flags for a name in the registry
Queried(mean, first, last, major_of, minor_of) ==
    /\ req.opcode = TTS_QUERY
    /\ req.ts_name \in DOMAIN db
    /\ req.bits = [mean |-> mean, first |-> first, last |-> last,
                   major_of |-> major_of, minor_of |-> minor_of,
                   reserved |-> 0]

NonDecreasing(ts) ==
    \A i, j \in 1..Len(ts.timestamps.data) :
        i <= j => ts.timestamps.data[i] <= ts.timestamps.data[j]

\* the positions, in insertion order, of the samples with lo <= timestamp <= hi
SamplesWithin(ts, lo, hi) ==
    SelectSeq([i \in 1..Len(ts.timestamps.data) |-> i],
              LAMBDA i : lo <= ts.timestamps.data[i]
                         /\ ts.timestamps.data[i] <= hi)

\* a QUERY_RESPONSE was produced whose rows are the samples at the positions
\* idxs, in that order
AnsweredWith(ts, idxs) ==
    /\ fault = "none"
    /\ response.type = TTS_RESPONSE
    /\ response.opcode = TTS_QUERY_RESPONSE
    /\ Len(response.results) = Len(idxs)
    /\ \A k \in 1..Len(idxs) :
          LET row == response.results[k]
              s == StoredSample(ts, idxs[k])
          IN  /\ row.rc = TTS_OK
              /\ row.value = s.value
              /\ row.labels = s.labels
              /\ row.ts_sec * 1000000000 + row.ts_nsec = s.timestamp

(***************************************************************************)
(* C13. On a non-empty timeseries with non-decreasing timestamps, a range  *)
(* query with both bounds set, major_of <= minor_of and no mean returns    *)
(* exactly the stored samples with major_of <= timestamp <= minor_of, in   *)
(* insertion order: every sample that ties with either bound, also at      *)
(* index 0 or at the last index, and no sample outside the bounds.         *)
(***************************************************************************)
C13_RangeInclusive ==
    (/\ Queried(0, 0, 0, 1, 1)
     /\ db[req.ts_name].timestamps.size > 0
     /\ NonDecreasing(db[req.ts_name])
     /\ req.major_of <= req.minor_of) =>
        AnsweredWith(db[req.ts_name],
                     SamplesWithin(db[req.ts_name], req.major_of,
                                   req.minor_of))

(***************************************************************************)
(* C14. On a non-empty timeseries with non-decreasing timestamps, a range  *)
(* query with only minor_of set returns every stored sample with           *)
(* timestamp <= minor_of from the first stored sample on, and one with     *)
(* only major_of set returns every stored sample with timestamp >=         *)
(* major_of up to and including the last stored sample.                    *)
(***************************************************************************)
C14_RangeOneBound ==
    LET ts == db[req.ts_name]
        n == Len(ts.timestamps.data)
    IN  /\ (/\ Queried(0, 0, 0, 0, 1)
            /\ ts.timestamps.size > 0
            /\ NonDecreasing(ts)) =>
               AnsweredWith(ts, SamplesWithin(ts, ts.timestamps.data[1],
                                              req.minor_of))
        /\ (/\ Queried(0, 0, 0, 1, 0)
            /\ ts.timestamps.size > 0
            /\ NonDecreasing(ts)) =>
               AnsweredWith(ts, SamplesWithin(ts, req.major_of,
                                              ts.timestamps.data[n]))

(***************************************************************************)
(* C15. On a non-empty timeseries, a range query with major_of > minor_of  *)
(* is answered with a QUERY_RESPONSE of zero rows: the row count           *)
(* hi - lo + 1 is 0, never negative or wrapped to a large unsigned number. *)
(***************************************************************************)
C15_RangeInverted ==
    (/\ Queried(0, 0, 0, 1, 1)
     /\ db[req.ts_name].timestamps.size > 0
     /\ req.major_of > req.minor_of) =>
        AnsweredWith(db[req.ts_name], <<>>)

(***************************************************************************)
(* C16. A QUERY with the first or the last bit set on an existing          *)
(* timeseries that holds no sample is answered with a QUERY_RESPONSE of    *)
(* zero rows and reads no element of the timestamp or record vector.       *)
(***************************************************************************)
C16_FirstLastEmpty ==
    (/\ req.opcode = TTS_QUERY
     /\ req.ts_name \in DOMAIN db
     /\ req.bits.first = 1 \/ req.bits.last = 1
     /\ db[req.ts_name].timestamps.size = 0) =>
        /\ AnsweredWith(db[req.ts_name], <<>>)
        /\ ~oob

(***************************************************************************)
(* What the claims on averages compare: the groups a window should cut     *)
(* the samples into, and the sum and the number of the samples of a group. *)
(***************************************************************************)
\* the last request is a QUERY for a time-window average, over the whole
\* timeseries or over a range, of a name in the registry
QueriedMean ==
    /\ req.opcode = TTS_QUERY
    /\ req.ts_name \in DOMAIN db
    /\ req.bits.mean = 1 /\ req.bits.first = 0 /\ req.bits.last = 0

\* the last position from i on whose timestamp is at most limit, the
\* timestamps from i on being non-decreasing
RECURSIVE LastWithin(_, _, _)
LastWithin(ts, i, limit) ==
    IF i < Len(ts.timestamps.data) /\ ts.timestamps.data[i + 1] <= limit
    THEN LastWithin(ts, i + 1, limit)
    ELSE i

\* the groups [from, to] of positions: each starts at the first sample not
\* yet in a group and holds the samples up to its timestamp + window
RECURSIVE WindowGroups(_, _, _)
WindowGroups(ts, i, window) ==
    IF i > Len(ts.timestamps.data) THEN <<>>
    ELSE LET to == LastWithin(ts, i, ts.timestamps.data[i] + window)
         IN  <<[from |-> i, to |-> to]>> \o WindowGroups(ts, to + 1, window)

RECURSIVE SumOfValues(_, _, _)
SumOfValues(ts, from, to) ==
    IF from > to THEN 0
    ELSE ts.columns.data[from].value + SumOfValues(ts, from + 1, to)

\* the quotient value is the arithmetic mean of the samples from..to
IsMeanOf(value, ts, from, to) ==
    /\ value.den # 0
    /\ value.num * (to - from + 1) = SumOfValues(ts, from, to) * value.den

\* the least k with k * d >= n, for d > 0
CeilDiv(n, d) == (n + d - 1) \div d

(***************************************************************************)
(* C17. A mean query without range on a non-empty timeseries with          *)
(* non-decreasing timestamps cuts all stored samples into consecutive      *)
(* groups: each group starts at the first sample not yet consumed, at      *)
(* timestamp s, and holds exactly the following samples with timestamp     *)
(* <= s + window_ms * 10^6; every sample is in exactly one group, and each *)
(* group yields one row whose value is the arithmetic mean of its samples  *)
(* and whose label list is empty.                                          *)
(***************************************************************************)
C17_MeanPartition ==
    (/\ QueriedMean
     /\ req.bits.major_of = 0 /\ req.bits.minor_of = 0
     /\ db[req.ts_name].timestamps.size > 0
     /\ NonDecreasing(db[req.ts_name])) =>
        LET ts == db[req.ts_name]
            groups == WindowGroups(ts, 1, req.mean_val * NSEC_PER_MSEC)
        IN  /\ fault = "none"
            /\ response.opcode = TTS_QUERY_RESPONSE
            /\ Len(response.results) = Len(groups)
            /\ \A k \in 1..Len(groups) :
                  /\ IsMeanOf(response.results[k].value, ts,
                              groups[k].from, groups[k].to)
                  /\ response.results[k].labels = <<>>

(***************************************************************************)
(* C18. For every positive window_ms and every mean query, with or without *)
(* range, over a non-empty selection, the number k of rows satisfies       *)
(* 1 <= k <= ceil(span_ns / (window_ms * 10^6)), span_ns being the         *)
(* difference between the last and the first selected timestamp.           *)
(***************************************************************************)
C18_MeanRowCount ==
    QueriedMean =>
        LET ts == db[req.ts_name]
            n == Len(ts.timestamps.data)
            lo == IF req.bits.major_of = 1 THEN req.major_of
                  ELSE ts.timestamps.data[1]
            hi == IF req.bits.minor_of = 1 THEN req.minor_of
                  ELSE ts.timestamps.data[n]
            selected == SamplesWithin(ts, lo, hi)
            span_ns == ts.timestamps.data[selected[Len(selected)]]
                       - ts.timestamps.data[selected[1]]
        IN  (/\ n > 0
             /\ NonDecreasing(ts)
             /\ req.mean_val > 0
             /\ selected # <<>>) =>
                /\ fault = "none"
                /\ response.opcode = TTS_QUERY_RESPONSE
                /\ 1 <= Len(response.results)
                /\ Len(response.results)
                      <= CeilDiv(span_ns, req.mean_val * NSEC_PER_MSEC)

(***************************************************************************)
(* C19. In every mean query, with or without a range, a window that        *)
(* contains no sample produces no row: every row of the response is the    *)
(* average of at least one sample, its divisor is never 0.                 *)
(***************************************************************************)
C19_NoEmptyWindowRow ==
    (/\ QueriedMean
     /\ fault = "none"
     /\ response.opcode = TTS_QUERY_RESPONSE) =>
        \A k \in 1..Len(response.results) :
            response.results[k].value.den # 0

(***************************************************************************)
(* What C20 compares: a mean query with a range that was answered, the     *)
(* bounds in effect, the first selected sample and the timestamps of the   *)
(* rows.                                                                   *)
(***************************************************************************)
\* the bounds in effect: those of the request, or the first and the last
\* timestamp of the timeseries for a bound the request leaves out
EffectiveMajor ==
    IF req.bits.major_of = 1 THEN req.major_of
    ELSE db[req.ts_name].timestamps.data[1]

EffectiveMinor ==
    IF req.bits.minor_of = 1 THEN req.minor_of
    ELSE db[req.ts_name].timestamps.data[Len(db[req.ts_name].timestamps.data)]

\* a mean query with a range on a timeseries with non-decreasing timestamps
\* that selects at least one sample and was answered with rows
AnsweredMeanRange ==
    /\ QueriedMean
    /\ req.bits.major_of = 1 \/ req.bits.minor_of = 1
    /\ fault = "none"
    /\ response.opcode = TTS_QUERY_RESPONSE
    /\ db[req.ts_name].timestamps.size > 0
    /\ NonDecreasing(db[req.ts_name])
    /\ SamplesWithin(db[req.ts_name], EffectiveMajor, EffectiveMinor) # <<>>

\* the timestamp of the first selected sample
FirstSelected ==
    LET ts == db[req.ts_name]
    IN  ts.timestamps.data[SamplesWithin(ts, EffectiveMajor,
                                         EffectiveMinor)[1]]

\* the anchor after it was advanced by one window while anchor + window
\* is at most the first selected timestamp
AnchorAtOrBelowFirst ==
    LET window == req.mean_val * NSEC_PER_MSEC
    IN  IF window > 0 /\ FirstSelected > EffectiveMajor
        THEN EffectiveMajor
             + ((FirstSelected - EffectiveMajor) \div window) * window
        ELSE EffectiveMajor

\* the anchor after it was advanced by one window while it is below the
\* first selected timestamp
AnchorNotBelowFirst ==
    LET window == req.mean_val * NSEC_PER_MSEC
    IN  IF window > 0 /\ FirstSelected > EffectiveMajor
        THEN EffectiveMajor
             + CeilDiv(FirstSelected - EffectiveMajor, window) * window
        ELSE EffectiveMajor

\* row k of the response carries the timestamp anchor + k * window
RowsFrom(anchor) ==
    \A k \in 1..Len(response.results) :
        response.results[k].ts_sec * NSEC_PER_SEC
            + response.results[k].ts_nsec
          = anchor + k * req.mean_val * NSEC_PER_MSEC

(***************************************************************************)
(* C20. In a mean query with a range, the window anchor starts at major_of *)
(* and is advanced by one window while anchor + window is at most the      *)
(* timestamp of the first selected sample, so that it ends at or below     *)
(* that sample and less than one window away from it; row k of the         *)
(* response carries the upper boundary anchor + k * window of its window.  *)
(***************************************************************************)
C20_AnchorWarmup == AnsweredMeanRange => RowsFrom(AnchorAtOrBelowFirst)

\* a range-mean query was answered with rows after the anchor was advanced
\* to a point strictly below a first selected sample off the window grid
C20_Witness ==
    /\ AnsweredMeanRange
    /\ response.results # <<>>
    /\ EffectiveMajor < AnchorAtOrBelowFirst
    /\ AnchorAtOrBelowFirst < FirstSelected

\* C20 as stated: the anchor is advanced while it remains strictly below the
\* timestamp of the first selected sample, and row k carries anchor + k * window
C20_AnchorStrictlyBelow == AnsweredMeanRange => RowsFrom(AnchorNotBelowFirst)

(***************************************************************************)
(* What C21 compares: the rows that average at least one sample, and the   *)
(* ways to cut the selected samples into consecutive groups.               *)
(***************************************************************************)
\* the rows are the means of consecutive groups that cut the positions
\* from..to, ends being the last positions of the groups
RowsAverage(rows, ts, from, ends) ==
    /\ Cardinality(ends) = Len(rows)
    /\ \A e \in ends :
          LET before == {x \in ends : x < e}
              start == IF before = {} THEN from
                       ELSE 1 + CHOOSE x \in before :
                                    \A y \in before : y <= x
          IN  IsMeanOf(rows[Cardinality(before) + 1].value, ts, start, e)

(***************************************************************************)
(* C21. In a mean query with a range on a timeseries with non-decreasing   *)
(* timestamps, every sample in the inclusive index range [lo, hi] resolved *)
(* for the bounds, the sample at hi included, is averaged into exactly one *)
(* row, and no sample outside [lo, hi] is averaged into any row.           *)
(***************************************************************************)
C21_RangeMeanCovers ==
    (/\ QueriedMean
     /\ req.bits.major_of = 1 \/ req.bits.minor_of = 1
     /\ db[req.ts_name].timestamps.size > 0
     /\ NonDecreasing(db[req.ts_name])
     /\ SamplesWithin(db[req.ts_name], EffectiveMajor, EffectiveMinor)
            # <<>>) =>
        LET ts == db[req.ts_name]
            selected == SamplesWithin(ts, EffectiveMajor, EffectiveMinor)
            lo == selected[1]
            hi == selected[Len(selected)]
            rows == SelectSeq(response.results,
                              LAMBDA row : row.value.den # 0)
        IN  /\ fault = "none"
            /\ response.opcode = TTS_QUERY_RESPONSE
            /\ \E cuts \in SUBSET (lo..(hi - 1)) :
                  RowsAverage(rows, ts, lo, cuts \cup {hi})

(***************************************************************************)
(* What C22 compares: the pairs a stored sample carries.                   *)
(***************************************************************************)
\* the sample at position i carries every pair of the list pairs
CarriesAll(ts, i, pairs) ==
    \A k \in 1..Len(pairs) :
        \E j \in 1..Len(StoredSample(ts, i).labels) :
            StoredSample(ts, i).labels[j] = pairs[k]

(***************************************************************************)
(* C22. A QUERY with the filter bit (bit 5 of the flags) set and a list of *)
(* (label, value) pairs returns only the samples that carry every supplied *)
(* pair, and zero rows when a supplied pair is carried by no sample of the *)
(* timeseries.                                                             *)
(***************************************************************************)
C22_Filter ==
    (/\ req.opcode = TTS_QUERY
     /\ req.ts_name \in DOMAIN db
     /\ req.bits = [AllQuery.bits EXCEPT !.reserved = 1]) =>
        LET ts == db[req.ts_name]
        IN  AnsweredWith(ts,
                SelectSeq([i \in 1..Len(ts.timestamps.data) |-> i],
                          LAMBDA i : CarriesAll(ts, i, req.rest)))

(***************************************************************************)
(* The connection: requests read, responses queued, bytes written.         *)
(***************************************************************************)
\* the offset behind the i-th request the peer has sent
RECURSIVE PostedEnd(_, _)
PostedEnd(posted, i) ==
    IF i = 0 THEN 0 ELSE posted[i] + PostedEnd(posted, i - 1)

\* the requests whose every byte the server has read from the socket
RequestsRead(c) ==
    Cardinality({i \in 1..Len(c.posted) : PostedEnd(c.posted, i) <= c.nread})

\* the five framing bytes and the whole of the body they declare
FullPacket(bytes) ==
    /\ Len(bytes) >= HEADER_SIZE + LENGTH_SIZE
    /\ Len(bytes) >= HEADER_SIZE + LENGTH_SIZE + UnpackU32(bytes, HEADER_SIZE)

\* on_data has run in this step on a connection that is open
Handling == conn'.handled = conn.handled + 1 /\ conn.state = "open"

\* C23: on every connection, two or more requests read back-to-back
\* included, each request the server has received is handled and answered
\* in its turn: none is dropped or overwritten before it is handled, so the
\* requests read never outnumber the requests handled.
C23_NoRequestDropped ==
    (fault = "none" /\ conn.state = "open")
        => RequestsRead(conn) <= conn.handled

\* C24: whatever partial writes and would-block results the socket gives,
\* the bytes handed to the socket are the bytes of the response once and in
\* order: at every moment they are a prefix of the response.
C24_BytesOnceInOrder ==
    conn.state = "open"
        => /\ Len(conn.out) <= Len(conn.resp)
           /\ conn.out = SubSeq(conn.resp, 1, Len(conn.out))

\* C25: once the response of a request is completely written, the fd of
\* the connection is armed for READ again, it does not stay armed for WRITE
\* only.
C25_RearmedForRead ==
    (fault = "none" /\ conn.state = "open" /\ conn.resp # <<>>
        /\ conn.size = 0)
        => conn.armed = "READ"

\* C26: the dispatcher runs on a packet only once its 5 framing bytes and
\* the whole body they declare have been received; on fewer bytes no
\* handler runs.
C26_DispatchOnFullPacket ==
    (conn.state = "open" /\ conn.handled > 0) => FullPacket(conn.seen)

\* a name whose length prefix exceeds the length of the body it lies in
Malformed(bytes) ==
    /\ FullPacket(bytes)
    /\ Len(bytes) > HEADER_SIZE + LENGTH_SIZE
    /\ HeaderOpcode(bytes[1]) \in {TTS_CREATE_TS, TTS_DELETE_TS}
    /\ 1 + bytes[HEADER_SIZE + LENGTH_SIZE + 1]
          > UnpackU32(bytes, HEADER_SIZE)

\* C27: on a malformed packet the decoder ends and reports it, the registry
\* stays as it is, no response is queued and the connection is closed.
C27_MalformedRejected ==
    [][(Handling /\ Malformed(conn'.seen))
          => /\ fault' = "none"
             /\ db' = db
             /\ conn'.resp = <<>>
             /\ conn'.state = "closed"]_vars

AckBytes(bytes, status) ==
    /\ bytes # <<>>
    /\ HeaderType(bytes[1]) = TTS_RESPONSE
    /\ HeaderOpcode(bytes[1]) = TTS_ACK
    /\ HeaderStatus(bytes[1]) = status

\* C28: a request with an opcode that is none of CREATE_TS, DELETE_TS,
\* ADDPOINTS and QUERY is answered with an ACK of status UNKNOWN_CMD, the
\* registry stays as it is, and what is queued for the socket is not the
\* request as it was received.
C28_UnknownOpcodeAcked ==
    [][(Handling /\ FullPacket(conn'.seen)
          /\ HeaderOpcode(conn'.seen[1])
                \notin {TTS_CREATE_TS, TTS_DELETE_TS, TTS_ADDPOINTS, TTS_QUERY})
          => /\ AckBytes(conn'.resp, TTS_UNKNOWN_CMD)
             /\ db' = db
             /\ conn'.resp # conn'.seen]_vars

\* C29: every ACK queued for the socket is 5 bytes, the header byte and a
\* length of 0 in 4 bytes, whatever the buffer held before.
C29_AckIsFiveBytes ==
    (conn.resp # <<>> /\ HeaderType(conn.resp[1]) = TTS_RESPONSE
        /\ HeaderOpcode(conn.resp[1]) = TTS_ACK)
        => /\ Len(conn.resp) = HEADER_SIZE + LENGTH_SIZE
           /\ SubSeq(conn.resp, HEADER_SIZE + 1, HEADER_SIZE + LENGTH_SIZE)
                 = PackU32(0)

\* C30: after the read of zero bytes has torn the connection down, nothing
\* touches its state any more: no callback, no handler, no response.
C30_NothingAfterTeardown ==
    conn.state = "closed"
        => /\ ~conn.uaf
           /\ conn.resp = <<>>
           /\ fault = "none"

(***************************************************************************)
(* C40. A CREATE_TS, DELETE_TS, ADDPOINTS or QUERY addressed to one name   *)
(* leaves every timeseries stored under another name as it is: presence,   *)
(* retention, timestamps, records and tag index, also when one name is a   *)
(* prefix of the other.                                                    *)
(***************************************************************************)
C40_OtherNamesUnchanged ==
    [][\A other \in DOMAIN db :
          (req'.opcode \in {TTS_CREATE_TS, TTS_DELETE_TS, TTS_ADDPOINTS,
                            TTS_QUERY}
              /\ req'.ts_name # other)
          => /\ HASH_PRESENT(db', other)
             /\ db'[other] = db[other]
    ]_vars

\* "a" was just deleted while "ab" holds a labelled sample
C40_Witness ==
    /\ req.opcode = TTS_DELETE_TS
    /\ req.ts_name = "a"
    /\ lifecycle.stage = "deleted"
    /\ HASH_PRESENT(db, "ab")
    /\ TTS_VECTOR_SIZE(db["ab"].timestamps) > 0
    /\ db["ab"].tags # HASH_EMPTY


(***************************************************************************)
(* C32. Every request handler terminates, for every state of the registry  *)
(* and every decoded request: no QUERY with the mean bit, with or without  *)
(* range bounds, for any mean_val (0 included) and any major_of, leaves    *)
(* its handler in a loop that never ends.                                  *)
(***************************************************************************)
C32_HandlersTerminate == fault # "hang"

(***************************************************************************)
(* C39. No QUERY handler reads the timestamp or record sequence of a       *)
(* timeseries of n samples outside the indexes 0 .. n - 1, whatever the    *)
(* state of the timeseries (empty included) and whatever the flags and     *)
(* bounds of the query: the default bounds read at 0 and n - 1, the binary *)
(* search, the expansion to the neighbours and the window scan of both     *)
(* averages stay inside the sequence.                                      *)
(***************************************************************************)
C39_ReadsInsideSequence == req.opcode = TTS_QUERY => ~oob

\* 2048 * 2^k for some k
RECURSIVE IsDoubled(_)
IsDoubled(capacity) ==
    \/ capacity = EV_TCP_BUFSIZE
    \/ /\ capacity > EV_TCP_BUFSIZE
       /\ capacity % 2 = 0
       /\ IsDoubled(capacity \div 2)

C36_IntegerRoundTrip ==
    (codec.stage = "unpacked" /\ codec.kind = "integer") =>
        /\ codec.out = codec.val
        /\ MemGet(codec.buf, codec.from, codec.ret)
              = SubSeq(Bytes64(codec.val), 9 - codec.ret, 8)

(***************************************************************************)
(* C37. Each operation of the byte packer that takes the cursor by         *)
(* reference (pack_integer, pack_real, unpack_integer, unpack_real,        *)
(* unpack_bytes) leaves the cursor advanced by exactly the number of bytes *)
(* it returns: 1, 2, 4 or 8 by the type, the length for a byte run.        *)
(***************************************************************************)
C37_CursorAdvanced ==
    codec.stage \in {"packed", "unpacked"} =>
        /\ codec.at = codec.from + codec.ret
        /\ codec.ret = IF codec.kind = "integer" THEN IntegerWidth(codec.type)
                       ELSE IF codec.kind = "real" THEN RealWidth(codec.type)
                       ELSE codec.val

\* C35: every descriptor handed to ev_watch_fd, ev_register_event,
\* ev_fire_event or ev_register_cron, in any order and of any value, the
\* initial capacity of events_monitored and the values above it included, has
\* its slot inside the allocated array, and a slot that a resize created
\* starts with the mask EV_NONE.
C35_SlotInsideArray ==
    ctx.stage # "none" => ~ctx.outside /\ ~ctx.raw

\* C34: a descriptor that is ready for READ and for WRITE in one cycle has
\* its read callback called first and its write callback after it only if
\* that is another function; no callback is called twice for a descriptor in
\* a cycle; an event whose mask has CLOSE calls the read callback only, once.
C34_DispatchOrder ==
    LET calls == ctx.last.calls
        mask == ctx.last.mask
    IN  /\ Len(calls) <= 2
        /\ ({"READ", "WRITE"} \subseteq mask
               /\ mask \cap {"CLOSEFD", "TIMERFD", "EVENTFD"} = {})
           => (calls # <<>> /\ calls[1].kind = "read")
        /\ Len(calls) = 2
           => /\ calls[1].kind = "read"
              /\ calls[2].kind = "write"
              /\ calls[2].callback # calls[1].callback
        /\ "CLOSEFD" \in mask
           => /\ Len(calls) <= 1
              /\ \A i \in DOMAIN calls : calls[i].kind = "read"
              /\ ctx.last.fd = ctx.quit_sig => Len(calls) = 1

\* READ and WRITE were ready for a descriptor whose two callbacks are the
\* function A, and A was called once, as the read callback
C34_Witness ==
    /\ ctx.last.mask = {"READ", "WRITE"}
    /\ ctx.last.fd \in DOMAIN ctx.events_monitored
    /\ ctx.events_monitored[ctx.last.fd].rcallback = "A"
    /\ ctx.events_monitored[ctx.last.fd].wcallback = "A"
    /\ ctx.last.calls = <<[kind |-> "read", callback |-> "A"]>>

\* C31: once the signal handler has written to the eventfd while ev_run is
\* looping, blocked in ev_poll or processing events, the loop comes to call
\* the stop callback, finds the stop flag at the top of its next iteration
\* and ev_run returns.
C31_StopsAfterSignal ==
    (ctx.quit = 1 /\ ctx.stage \in {"loop", "batch"})
        ~> (ctx.stage = "returned")

\* C33: a well-formed packet of any opcode that is encoded and decoded again
\* is the packet it was, header, name, fields and result rows, and the length
\* in the encoding is the number of bytes of the body that was produced.
C33_RoundTrip ==
    codec.stage = "decoded"
        => /\ ~codec.crash
           /\ \A member \in DOMAIN codec.p :
                 /\ member \in DOMAIN codec.out
                 /\ codec.out[member] = codec.p[member]
           /\ codec.len = codec.body

=============================================================================
